---- MODULE Spec2Model ----
(***************************************************************************)
(* Model of the article harvester: the multi-source fetch and              *)
(* deduplication pipeline (src/src/fetch_articles.py) and the tiered       *)
(* extraction engine with its caller (src/src/llm_extractor.py,            *)
(* src/src/glm_client.py, src/src/harvest_medrxiv.py).                      *)
(*                                                                         *)
(* Strings that the code only compares (identifiers, URLs, source tags)    *)
(* are TLA+ strings.  Titles are sequences of one-character strings, so    *)
(* that normalisation and the similarity ratio are computed.               *)
(***************************************************************************)
EXTENDS Integers, Sequences, FiniteSets, TLC

VARIABLES
    pc,              \* position of the running call
    fuzz_available,  \* TRUE: fuzzywuzzy was imported; FALSE: the fallback class fuzz
    \* ArticleFetcher._deduplicate_articles
    articles,        \* the list handed to _deduplicate_articles / built by fetch_articles
    deduplicated,    \* the list _deduplicate_articles returned (empty before the call)
    found,           \* found_duplicate of each article of articles_sorted, in that order
    \* ArticleFetcher.fetch_articles
    biomodel_api_key,\* self.biomodel_api_key is set
    year,            \* the argument year (NoYear or a year)
    max_articles,    \* self.max_articles
    fetched,         \* per adapter: what its call did ("pending", "skipped", "failed",
                     \* "returned") and the list it returned
    result,          \* the value fetch_articles returned (empty before it returns)
    \* LLMExtractor.extract
    glm_client,      \* self.glm_client is set
    openai_client,   \* self.openai_client is set
    abstract,        \* the argument abstract
    tier_calls,      \* the tiers this call of extract has called, with what came of each
    raw,             \* the five-field candidate before coercion and slicing
    extraction_result,   \* the dict extract returned / harvest combines
    needs_manual_review, \* the flag extract returned / harvest combines
    \* MedRxivHarvester.harvest
    harvest_articles,    \* the list harvest walks through
    index,           \* position of the loop in harvest_articles (1-based)
    cache,           \* self.cache: article id -> processed article
    processed_articles,  \* the list processed_articles
    needs_review,    \* the list needs_review
    produced_by,     \* per processed article: "cache", "short" or the tier that made it
    sleeps,          \* number of time.sleep(self.llm_delay) calls
    trace,           \* what the harvest runs have done so far, in order: cache hits,
                     \* short abstracts, calls of extract, sleeps, cache loads and saves
    cache_file,      \* the file .cache/processed.json
    run,             \* number of the harvest run (a new process each)
    \* ArticleFetcher._make_request_with_retry / GLMClient._make_request
    loop,            \* which of the two retry loops is running: "fetch" or "glm"
    max_retries,     \* the argument max_retries
    initial_delay,   \* the argument initial_delay (seconds)
    attempt,         \* the loop variable attempt (0-based)
    delay,           \* the local delay (seconds)
    responses,       \* what each request issued so far came to: a status code, or
                     \* TransportFailure when requests raised
    slept,           \* the time.sleep calls so far: which retry each came before, how long
    call_state,      \* "idle", "running", "returned" or "raised"
    response,        \* the status of the response returned to the caller (NoResponse if none)
    exceptions,      \* number of exceptions that reached the caller
    \* main: what harvest reports and what the process returns
    statistics,      \* the dict _generate_statistics returned (NoStatistics before)
    exit_status,     \* what main returned (NoStatus while it runs)
    \* ArticleFetcher._extract_last_corresponding_author
    authors,         \* the argument authors
    affiliations,    \* the argument affiliations
    last_corresponding,  \* the tuple the call returned (two empty strings before)
    \* the parsers of ArticleFetcher, each on one item of its source
    parser_name,     \* the parser called
    raw_item,        \* the item, entry, result div or PubmedArticle element given to it
    record,          \* what it returned or appended: <<>> for None, else <<the record>>
    \* the two retry loops run side by side on one sequence of answers
    served,          \* what the server does with the successive requests
    fetch_run,       \* ArticleFetcher._make_request_with_retry on them: requests, sleeps, outcome
    glm_run          \* GLMClient._make_request on them: requests, sleeps, outcome

dedupVars == <<articles, deduplicated, found>>
fetchVars == <<biomodel_api_key, year, max_articles, fetched, result>>

extractVars == <<glm_client, openai_client, abstract, tier_calls, raw,
                 extraction_result, needs_manual_review>>
harvestVars == <<harvest_articles, index, cache, processed_articles, needs_review,
                 produced_by, sleeps, trace, cache_file, run>>

retryVars == <<loop, max_retries, initial_delay, attempt, delay, responses, slept,
               call_state, response, exceptions>>

mainVars == <<statistics, exit_status>>

resolverVars == <<authors, affiliations, last_corresponding>>

parseVars == <<parser_name, raw_item, record>>

policyVars == <<served, fetch_run, glm_run>>

\* the variables of the calls modelled on their own
aloneVars == <<resolverVars, parseVars, policyVars>>
restVars == <<mainVars, aloneVars>>

vars == <<pc, fuzz_available, dedupVars, fetchVars, extractVars, harvestVars, retryVars,
         restVars>>

NoYear == 0     \* year=None; `if year:` treats 0 the same way

-----------------------------------------------------------------------------
(* Bounds of the model *)

MaxArticles == 3     \* longest list handed to _deduplicate_articles
MaxHarvest == 2      \* longest list harvest walks through
MaxRuns == 2         \* number of successive harvest runs
MaxAuthors == 3      \* longest list of authors and of affiliations

-----------------------------------------------------------------------------
(* Sequence helpers *)

Range(s) == {s[i] : i \in 1..Len(s)}

SetMax(S) == CHOOSE x \in S : \A y \in S : y <= x
SetMin(S) == CHOOSE x \in S : \A y \in S : x <= y

-----------------------------------------------------------------------------
(* Titles: characters, _normalize_title, fuzz.ratio *)

LowerLetters == {"a", "b", "c", "d", "e", "f", "g", "h", "i", "s", "x", "z"}
UpperLetters == {"A", "Z"}
Whitespace   == {" "}

\* str.lower() on one character
Lower(c) == CASE c = "A" -> "a" [] c = "Z" -> "z" [] OTHER -> c

\* [^\w\s]: a character that is neither a word character nor whitespace
IsPunct(c) == c \notin LowerLetters /\ c \notin UpperLetters /\ c \notin Whitespace

\* re.sub(r'[^\w\s]', '', title.lower())
RECURSIVE RemovePunct(_)
RemovePunct(s) ==
    IF s = <<>> THEN <<>>
    ELSE IF IsPunct(Lower(Head(s))) THEN RemovePunct(Tail(s))
         ELSE <<Lower(Head(s))>> \o RemovePunct(Tail(s))

\* re.sub(r'\s+', ' ', normalized): every run of whitespace becomes one space
RECURSIVE CollapseSpaces(_)
CollapseSpaces(s) ==
    IF s = <<>> THEN <<>>
    ELSE IF Head(s) \in Whitespace
         THEN IF Len(s) > 1 /\ s[2] \in Whitespace
              THEN CollapseSpaces(Tail(s))
              ELSE <<" ">> \o CollapseSpaces(Tail(s))
         ELSE <<Head(s)>> \o CollapseSpaces(Tail(s))

\* str.strip()
RECURSIVE StripLeft(_)
StripLeft(s) == IF s # <<>> /\ Head(s) \in Whitespace THEN StripLeft(Tail(s)) ELSE s

RECURSIVE StripRight(_)
StripRight(s) ==
    IF s # <<>> /\ s[Len(s)] \in Whitespace THEN StripRight(SubSeq(s, 1, Len(s) - 1)) ELSE s

Strip(s) == StripRight(StripLeft(s))

normalize_title(title) == Strip(CollapseSpaces(RemovePunct(title)))

\* difflib.SequenceMatcher as fuzz.ratio uses it: length of the common run that
\* starts at a[i] and b[j]
RECURSIVE RunLen(_, _, _, _)
RunLen(a, b, i, j) ==
    IF i > Len(a) \/ j > Len(b) THEN 0
    ELSE IF a[i] # b[j] THEN 0
    ELSE 1 + RunLen(a, b, i + 1, j + 1)

\* sum of the sizes of the matching blocks: the longest common block (the one
\* starting earliest in a, then earliest in b), then the same on both sides of it
RECURSIVE MatchingChars(_, _)
MatchingChars(a, b) ==
    IF a = <<>> \/ b = <<>> THEN 0
    ELSE
      LET runs == [p \in (1..Len(a)) \X (1..Len(b)) |-> RunLen(a, b, p[1], p[2])]
          k  == SetMax({runs[p] : p \in DOMAIN runs})
          bi == SetMin({p[1] : p \in {q \in DOMAIN runs : runs[q] = k}})
          bj == SetMin({p[2] : p \in {q \in DOMAIN runs : runs[q] = k /\ q[1] = bi}})
      IN IF k = 0 THEN 0
         ELSE k + MatchingChars(SubSeq(a, 1, bi - 1), SubSeq(b, 1, bj - 1))
                + MatchingChars(SubSeq(a, bi + k, Len(a)), SubSeq(b, bj + k, Len(b)))

\* int(round(x)) for x = num / den, Python 3 rounding (ties to even)
RoundDiv(num, den) ==
    LET q == num \div den
        r == num % den
    IN IF 2 * r < den THEN q
       ELSE IF 2 * r > den THEN q + 1
       ELSE IF q % 2 = 0 THEN q ELSE q + 1

\* fuzzywuzzy's fuzz.ratio: 100 for equal strings, 0 when one is empty, else
\* int(round(100 * 2*M/T))
FuzzyRatio(s1, s2) ==
    IF s1 = s2 THEN 100
    ELSE IF s1 = <<>> \/ s2 = <<>> THEN 0
    ELSE RoundDiv(200 * MatchingChars(s1, s2), Len(s1) + Len(s2))

\* the class fuzz defined when the import fails
FallbackRatio(s1, s2) == IF s1 = s2 THEN 100 ELSE 0

-----------------------------------------------------------------------------
(* ArticleFetcher._extract_last_corresponding_author                         *)
(*                                                                          *)
(* A string is a sequence of characters; the marker "(corresponding)" is    *)
(* one element of it, in the two spellings of the model.                     *)


\* an author: a dict with the keys the code reads, or any other value as str() shows it
DictAuthor(name, lastname, firstname, corresponding, corresponding_author) ==
    [kind |-> "dict", text |-> <<>>, name |-> name, lastname |-> lastname,
     firstname |-> firstname, corresponding |-> corresponding,
     corresponding_author |-> corresponding_author]
StrAuthor(text) ==
    [kind |-> "str", text |-> text, name |-> <<>>, lastname |-> <<>>, firstname |-> <<>>,
     corresponding |-> FALSE, corresponding_author |-> FALSE]

\* an affiliation: a dict with the keys the code reads, or any other value as str() shows it
DictAffiliation(name, institution) ==
    [kind |-> "dict", text |-> <<>>, name |-> name, institution |-> institution]
StrAffiliation(text) == [kind |-> "str", text |-> text, name |-> <<>>, institution |-> <<>>]

AuthorUniverse ==
    {StrAuthor(<<"A">>), StrAuthor(<<"B", "*">>), StrAuthor(<<"*", "C", " ">>),
     StrAuthor(<<"E", " ", "(Corresponding)">>),
     DictAuthor(<<"D">>, <<>>, <<>>, TRUE, FALSE),
     DictAuthor(<<>>, <<"F">>, <<"G">>, FALSE, TRUE),
     DictAuthor(<<"H", "*">>, <<>>, <<>>, FALSE, FALSE),
     DictAuthor(<<>>, <<>>, <<>>, TRUE, FALSE)}

AffiliationUniverse ==
    {StrAffiliation(<<"X">>), StrAffiliation(<<"Y">>),
     DictAffiliation(<<>>, <<"Z">>), DictAffiliation(<<>>, <<>>)}

\* str.lower() on the elements of an author string
LowerText(c) == IF c = "(Corresponding)" THEN "(corresponding)" ELSE Lower(c)

\* str.strip('*')
RECURSIVE StripStarsLeft(_)
StripStarsLeft(s) == IF s # <<>> /\ Head(s) = "*" THEN StripStarsLeft(Tail(s)) ELSE s
RECURSIVE StripStarsRight(_)
StripStarsRight(s) ==
    IF s # <<>> /\ s[Len(s)] = "*" THEN StripStarsRight(SubSeq(s, 1, Len(s) - 1)) ELSE s
StripStars(s) == StripStarsRight(StripStarsLeft(s))

\* author.get('name', '') or author.get('lastname', '') + ' ' + author.get('firstname', '')
DictAuthorName(author) ==
    IF author.name # <<>> THEN author.name
    ELSE author.lastname \o <<" ">> \o author.firstname

\* author_name in the loop: the name of a dict, str(author) otherwise
AuthorName(author) == IF author.kind = "dict" THEN DictAuthorName(author) ELSE author.text

\* is_corresponding in the loop
IsCorresponding(author) ==
    IF author.kind = "dict"
    THEN author.corresponding \/ author.corresponding_author
    ELSE \/ "*" \in Range(author.text)
         \/ "(corresponding)" \in {LowerText(author.text[k]) : k \in 1..Len(author.text)}

\* corresponding_authors after the loop: (i, author_name) with i counted from 0
RECURSIVE CorrespondingAuthors(_, _)
CorrespondingAuthors(list, n) ==
    IF n = 0 THEN <<>>
    ELSE CorrespondingAuthors(list, n - 1)
           \o (IF IsCorresponding(list[n]) /\ AuthorName(list[n]) # <<>>
               THEN <<[i |-> n - 1, author_name |-> AuthorName(list[n])]>> ELSE <<>>)

\* corresponding_authors = [(-1, author_name)]: the last author of the list
LastAuthor(list) ==
    LET last_author == list[Len(list)]
    IN [i |-> -1,
        author_name |-> IF last_author.kind = "dict" THEN DictAuthorName(last_author)
                        ELSE Strip(StripStars(last_author.text))]

\* (variant) corresponding_authors[0]
FirstCorresponding(candidates) == candidates[1]
\* last_corresponding = corresponding_authors[-1]
LastCorresponding(candidates) == candidates[Len(candidates)]

\* aff.get('name', '') or aff.get('institution', '') for a dict, str(aff) otherwise
AffiliationText(aff) ==
    IF aff.kind = "dict"
    THEN (IF aff.name # <<>> THEN aff.name ELSE aff.institution)
    ELSE aff.text

\* (variant) affiliations[0] as fallback
FirstAffiliation(list) == list[1]
\* last_aff = affiliations[-1]
LastAffiliation(list) == list[Len(list)]

Resolved(author_name, affiliation) == [author_name |-> author_name, affiliation |-> affiliation]

extract_last_corresponding_author(list, affs) ==
    LET found_corresponding == CorrespondingAuthors(list, Len(list))
    IN IF found_corresponding = <<>> /\ list = <<>> THEN Resolved(<<>>, <<>>)
       ELSE LET candidates == IF found_corresponding = <<>> THEN <<LastAuthor(list)>>
                              ELSE found_corresponding
                last_corresponding_ == LastCorresponding(candidates)
                author_name == Strip(StripStars(last_corresponding_.author_name))
                affiliation ==
                    IF affs = <<>> THEN <<>>
                    ELSE IF last_corresponding_.i >= 0 /\ last_corresponding_.i < Len(affs)
                         THEN AffiliationText(affs[last_corresponding_.i + 1])
                         ELSE AffiliationText(LastAffiliation(affs))
            IN Resolved(author_name, affiliation)

ResolverIdle ==
    /\ authors = <<>>
    /\ affiliations = <<>>
    /\ last_corresponding = Resolved(<<>>, <<>>)

-----------------------------------------------------------------------------
(* The parsers of ArticleFetcher: _parse_biomodel_article, _parse_rss_entry,  *)
(* _parse_search_result, one PubmedArticle of _parse_pubmed_xml and          *)
(* _parse_arxiv_entry.  A string is a sequence of characters or of longer    *)
(* pieces; <<>> is ''.                                                       *)

\* a key the item does not have, an element the document does not have
Absent == <<"(absent)">>
\* dict.get(key, default) with the value found under key
GetOr(value, default) == IF value = Absent THEN default ELSE value

DoiPrefix == "10.1101/2024.01.01"
Doi == <<DoiPrefix, ".000001">>

\* re.search(r'10\.\d{4,}/[^\s]+', text).group(0), '' when nothing matches
DoiIn(text) ==
    LET starts == {k \in 1..Len(text) : text[k] = DoiPrefix}
    IN IF starts = {} THEN <<>>
       ELSE LET first == SetMin(starts)
                stops == {k \in first..Len(text) : text[k] \in Whitespace}
            IN SubSeq(text, first, IF stops = {} THEN Len(text) ELSE SetMin(stops) - 1)

\* text.split('/')[-1]
LastSegment(text) ==
    LET slashes == {k \in 1..Len(text) : text[k] = "/"}
    IN IF slashes = {} THEN text ELSE SubSeq(text, SetMax(slashes) + 1, Len(text))

\* the lists of authors an item carries in the model
ItemAuthors ==
    {<<>>, <<StrAuthor(<<"A">>)>>,
     <<StrAuthor(<<"A">>), DictAuthor(<<"D">>, <<>>, <<>>, TRUE, FALSE)>>}
EntryAuthors == {<<>>, <<StrAuthor(<<"A">>)>>, <<StrAuthor(<<"A">>), StrAuthor(<<"B", "*">>)>>}

Item(doi, id, url, link, href, pmid, published_parsed, list, affs) ==
    [doi |-> doi, id |-> id, url |-> url, link |-> link, href |-> href, pmid |-> pmid,
     published_parsed |-> published_parsed, authors |-> list, affiliations |-> affs]

ParsedRecord(id, url, source, corresponding_author, resolved) ==
    [id |-> id, url |-> url, source |-> source,
     corresponding_author |-> corresponding_author,
     last_corresponding_author |-> resolved.author_name,
     last_corresponding_affiliation |-> resolved.affiliation]

\* _parse_biomodel_article: the first author with a true 'corresponding', else the first
BiomodelCorrespondingAuthor(list) ==
    LET flagged == {k \in 1..Len(list) : list[k].kind = "dict" /\ list[k].corresponding}
        explicit == IF flagged = {} THEN <<>> ELSE list[SetMin(flagged)].name
    IN IF explicit = <<>> /\ list # <<>>
       THEN (IF list[1].kind = "dict" THEN list[1].name ELSE list[1].text)
       ELSE explicit

parse_biomodel_article(it) ==
    <<ParsedRecord(GetOr(it.doi, GetOr(it.id, <<>>)),
                   GetOr(it.url, GetOr(it.doi, <<>>)),
                   "biomodel",
                   BiomodelCorrespondingAuthor(it.authors),
                   extract_last_corresponding_author(it.authors,
                                                     GetOr(it.affiliations, <<>>)))>>

\* datetime(*entry.published_parsed[:6]) raises when the attribute holds None
PublishedParsed == {"absent", "struct_time", "None"}
DateRaises(published_parsed) == published_parsed = "None"

parse_rss_entry(it) ==
    LET link == GetOr(it.link, <<>>)
        doi == DoiIn(link)
        resolved == extract_last_corresponding_author(it.authors, <<>>)
    IN IF DateRaises(it.published_parsed) THEN <<>>
       ELSE <<ParsedRecord(IF doi # <<>> THEN doi ELSE link, link, "medrxiv",
                           resolved.author_name, resolved)>>

MedrxivBase == "https://www.medrxiv.org"

parse_search_result(it) ==
    LET url == IF it.href # Absent /\ it.href # <<>> THEN <<MedrxivBase>> \o it.href ELSE <<>>
        doi == IF url # <<>> THEN DoiIn(url) ELSE <<>>
        resolved == extract_last_corresponding_author(it.authors, <<>>)
    IN <<ParsedRecord(IF doi # <<>> THEN doi ELSE url, url, "medrxiv",
                      resolved.author_name, resolved)>>

PubmedBase == "https://pubmed.ncbi.nlm.nih.gov/"

\* _parse_pubmed_xml on one PubmedArticle element
parse_pubmed_xml(it) ==
    LET doi == GetOr(it.doi, <<>>)
        pmid == GetOr(it.pmid, <<>>)
        url == IF pmid # <<>> THEN <<PubmedBase>> \o pmid ELSE <<>>
        resolved == extract_last_corresponding_author(it.authors, it.affiliations)
    IN <<ParsedRecord(IF doi # <<>> THEN doi ELSE pmid, url, "pubmed",
                      resolved.author_name, resolved)>>

parse_arxiv_entry(it) ==
    LET arxiv_id == LastSegment(GetOr(it.id, <<>>))
        resolved == extract_last_corresponding_author(it.authors, <<>>)
    IN IF DateRaises(it.published_parsed) THEN <<>>
       ELSE <<ParsedRecord(arxiv_id, GetOr(it.link, <<>>), "arxiv",
                           resolved.author_name, resolved)>>

\* what the sources can send
BiomodelItems ==
    {Item(doi, id, url, Absent, Absent, Absent, "absent", list, Absent) :
        doi \in {Absent, <<>>, Doi}, id \in {Absent, <<"m1">>},
        url \in {Absent, <<"https://biomodel.example/", "m1">>}, list \in ItemAuthors}
RssEntries ==
    {Item(Absent, Absent, Absent, link, Absent, Absent, published_parsed, list, Absent) :
        link \in {Absent, <<MedrxivBase, "/content/">> \o Doi \o <<"v1">>,
                  <<MedrxivBase, "/content/early">>},
        published_parsed \in PublishedParsed, list \in EntryAuthors}
SearchResults ==
    {Item(Absent, Absent, Absent, Absent, href, Absent, "absent", list, Absent) :
        href \in {Absent, <<>>, <<"/content/">> \o Doi \o <<"v1">>, <<"/content/early">>},
        list \in EntryAuthors}
PubmedArticles ==
    {Item(doi, Absent, Absent, Absent, Absent, pmid, "absent", list, affs) :
        doi \in {Absent, Doi}, pmid \in {Absent, <<"38000001">>}, list \in EntryAuthors,
        affs \in {<<>>, <<StrAffiliation(<<"X">>)>>}}
ArxivEntries ==
    {Item(Absent, id, Absent, link, Absent, Absent, published_parsed, list, Absent) :
        id \in {Absent, <<"http:", "/", "/", "arxiv.org", "/", "abs", "/", "2401.00001v1">>,
                <<"http:", "/", "/", "arxiv.org", "/", "abs", "/">>},
        link \in {Absent, <<"http:", "/", "/", "arxiv.org", "/", "abs", "/", "2401.00001v1">>},
        published_parsed \in PublishedParsed, list \in EntryAuthors}

ParseIdle ==
    /\ parser_name = ""
    /\ raw_item = Item(Absent, Absent, Absent, Absent, Absent, Absent, "absent", <<>>, Absent)
    /\ record = <<>>

-----------------------------------------------------------------------------
(* Article records *)

TitleA == <<"A", "b", "c", "d", "e", " ", "f", "g", "h", "i", "!">>
TitleB == <<"a", "b", "c", "d", "e", " ", "f", "g", "h", "x">>
TitleC == <<"a", "b", "c", "d", "e", " ", " ", "f", "g", "h", "i", "s">>
TitleX == <<"z", "Z">>
TitleE == <<>>

Titles == {TitleA, TitleB, TitleC, TitleX, TitleE}

Sources == {"biomodel", "medrxiv", "pubmed", "arxiv"}

\* what the adapters can report about a paper: identifier, landing page, title,
\* publication date.  "d1"/"d1" is a record whose URL is its identifier (an RSS
\* entry without DOI: 'id': doi or link; a BioModel item without url:
\* item.get('url', item.get('doi', ''))); "" is a value the source did not give.
Items ==
    { <<"d1", "u1", TitleA, "2025-03-01T00:00:00">>,
      <<"d1", "u2", TitleE, "">>,
      <<"d2", "u3", TitleB, "2024-11-30T00:00:00">>,
      <<"d3", "u4", TitleC, "2025-03-01T00:00:00">>,
      <<"d1", "d1", TitleX, "2025-03-01T00:00:00">>,
      <<"",   "u1", TitleE, "2024-11-30T00:00:00">>,
      <<"d2", "u1", TitleX, "">> }

Article(source, item) ==
    [source |-> source, id |-> item[1], url |-> item[2], title |-> item[3],
     published_at |-> item[4]]

ArticleUniverse == {Article(s, it) : s \in Sources, it \in Items}

-----------------------------------------------------------------------------
(* ArticleFetcher._deduplicate_articles *)

NormalizedTitles == {normalize_title(t) : t \in Titles}

\* fuzz.ratio of the installed library on the titles of the model, computed once
FuzzyRatioTable ==
    [p \in NormalizedTitles \X NormalizedTitles |-> FuzzyRatio(p[1], p[2])]

\* fuzz.ratio as the running program sees it
Ratio(s1, s2) ==
    IF fuzz_available THEN FuzzyRatioTable[<<s1, s2>>] ELSE FallbackRatio(s1, s2)

\* source_priority.get(x.get('source', 'other'), 2)
source_priority(source) ==
    CASE source = "biomodel" -> 0
      [] source = "medrxiv"  -> 1
      [] OTHER               -> 2

\* (variant) a sort on the same key that is not stable: equal keys come out reversed
SortByPriorityReversing(arts) ==
    LET Reversed(s) == [k \in 1..Len(s) |-> s[Len(s) + 1 - k]]
    IN Reversed(SelectSeq(arts, LAMBDA a : source_priority(a.source) = 0))
         \o Reversed(SelectSeq(arts, LAMBDA a : source_priority(a.source) = 1))
         \o Reversed(SelectSeq(arts, LAMBDA a : source_priority(a.source) = 2))

\* sorted(articles, key=...): a stable sort on a key with the values 0, 1, 2
SortByPriority(arts) ==
    SelectSeq(arts, LAMBDA a : source_priority(a.source) = 0)
      \o SelectSeq(arts, LAMBDA a : source_priority(a.source) = 1)
      \o SelectSeq(arts, LAMBDA a : source_priority(a.source) = 2)

\* (variant) similarity >= 90
AtOrOverThreshold(similarity) == similarity >= 90

\* similarity > 90
OverThreshold(similarity) == similarity > 90

\* the fuzzy title loop over the titles of deduplicated
TitleSeen(title, accepted) ==
    \E k \in 1..Len(accepted) :
        OverThreshold(Ratio(normalize_title(title), normalize_title(accepted[k].title)))

\* the dict seen after the DOI check: `seen[doi] = article`
SeenAfterDoi(seen, doi) == IF doi # "" /\ doi \notin seen THEN seen \cup {doi} ELSE seen

\* (variant) a URL check that finds nothing
UrlNeverSeen(seen, url) == FALSE
\* the URL check reads the same dict seen: `url in seen`
UrlSeen(seen, url) == url \in seen

\* state of the loop before the first article: seen = {}, deduplicated = [];
\* found records found_duplicate of every article visited, in sorted order
DedupStart == [seen |-> {}, deduplicated |-> <<>>, found |-> <<>>]

\* one iteration of `for article in articles_sorted`
DedupVisit(st, article) ==
    LET doi   == article.id
        url   == article.url
        title == article.title
        dupDoi   == doi # "" /\ doi \in st.seen
        seen1    == SeenAfterDoi(st.seen, doi)
        dupUrl   == ~dupDoi /\ url # "" /\ UrlSeen(seen1, url)
        seen2    == IF ~dupDoi /\ url # "" /\ ~dupUrl THEN seen1 \cup {url} ELSE seen1
        dupTitle == ~dupDoi /\ ~dupUrl /\ title # <<>> /\ TitleSeen(title, st.deduplicated)
        found_duplicate == dupDoi \/ dupUrl \/ dupTitle
    IN [seen         |-> seen2,
        deduplicated |-> IF found_duplicate THEN st.deduplicated
                         ELSE Append(st.deduplicated, article),
        found        |-> Append(st.found, found_duplicate)]

RECURSIVE DedupWalk(_, _)
DedupWalk(st, rest) ==
    IF rest = <<>> THEN st ELSE DedupWalk(DedupVisit(st, Head(rest)), Tail(rest))

DedupRun(arts) == DedupWalk(DedupStart, SortByPriority(arts))

deduplicate_articles(arts) == DedupRun(arts).deduplicated

\* (variant) articles.sort(key=...) in place of sorted(articles, key=...)
ArgumentSortedInPlace(arts) == SortByPriority(arts)

\* the caller's list after the call: sorted() copies, the argument is not touched
ArgumentAfterDedup(arts) == arts

-----------------------------------------------------------------------------
(* Extraction engine: values, validators, heuristic                         *)
(*                                                                          *)
(* A Python value is described by its type and by the length of the string  *)
(* it is (or of str(value) when it is no string); the code of the          *)
(* validators and of the return statements looks at nothing else.           *)

Fields == {"what_done", "ai_role", "models", "data_sources", "metrics"}
LongFields == {"what_done", "ai_role"}

CapLong == 2000
CapShort == 500
MinAbstractLength == 50

Str(n) == [type |-> "str", len |-> n]
JsonNull == [type |-> "NoneType", len |-> 4]
NonStr(type, n) == [type |-> type, len |-> n]

\* (variant) the coercion that lets None through
StrOfKeepingNone(value) == IF value.type \in {"str", "NoneType"} THEN value ELSE Str(value.len)

\* if not isinstance(value, str): value = str(value) if value is not None else ''
StrOf(value) ==
    IF value.type = "str" THEN value
    ELSE IF value.type # "NoneType" THEN Str(value.len) ELSE Str(0)

\* (variant) a slice that cuts nothing
SliceAll(value, n) == value

\* value[:n]
SliceTo(value, n) == [value EXCEPT !.len = IF value.len <= n THEN value.len ELSE n]

\* result.get(field, '')
Get(d, field) == IF field \in DOMAIN d THEN d[field] ELSE Str(0)

\* (variant) the long cap for every field
CapLongForAll(field) == CapLong
\* the slice bound of a field: [:2000] for what_done and ai_role, [:500] for the others
Cap(field) == IF field \in LongFields THEN CapLong ELSE CapShort

\* GLMClient._validate_extraction_result
GLMClient_validate_extraction_result(parsed) ==
    [field \in Fields |-> SliceTo(StrOf(Get(parsed, field)), Cap(field))]

\* LLMExtractor._validate_extraction_result
validate_extraction_result(parsed) ==
    [field \in Fields |-> SliceTo(StrOf(Get(parsed, field)), Cap(field))]

\* the literal dict of five empty strings
EmptyResult == [field \in Fields |-> Str(0)]

\* JSON objects a remote model can answer with
ParsedShort == [field \in Fields |-> Str(10)]
ParsedHuge  == [what_done |-> Str(2001), ai_role |-> Str(2000), models |-> Str(501),
                data_sources |-> Str(500), metrics |-> NonStr("list", 604)]
ParsedNulls == [what_done |-> JsonNull, ai_role |-> NonStr("int", 2), title |-> Str(1)]
ParsedEmpty == [field \in {} |-> Str(0)]
ParsedObjects == {ParsedShort, ParsedHuge, ParsedNulls, ParsedEmpty}

\* what a remote call comes to: the request fails, the response has no choices
\* (GLM), the content holds no JSON, the JSON is no object, or it is an object
Answer(outcome, parsed) == [outcome |-> outcome, parsed |-> parsed]
GLMFailures == {"request_failed", "no_choices", "no_json", "not_an_object"}
OpenAIFailures == {"request_failed", "no_json", "not_an_object"}
GLMAnswers == {Answer(o, ParsedEmpty) : o \in GLMFailures}
              \cup {Answer("object", d) : d \in ParsedObjects}
OpenAIAnswers == {Answer(o, ParsedEmpty) : o \in OpenAIFailures}
                 \cup {Answer("object", d) : d \in ParsedObjects}

\* GLMClient.extract_structured_info: the validated dict, or the exception re-raised
extract_structured_info(answer) ==
    IF answer.outcome = "object"
    THEN [raised |-> FALSE, result |-> GLMClient_validate_extraction_result(answer.parsed)]
    ELSE [raised |-> TRUE, result |-> EmptyResult]

\* LLMExtractor._extract_with_openai: (validated, content), or (None, None) on any exception
extract_with_openai(answer) ==
    IF answer.outcome = "object"
    THEN [is_none |-> FALSE, result |-> validate_extraction_result(answer.parsed)]
    ELSE [is_none |-> TRUE, result |-> EmptyResult]

\* `if result:` on what _extract_with_openai returned
Truthy(returned) == ~returned.is_none /\ DOMAIN returned.result # {}

\* Abstracts: length, length after strip(), and the lengths of the strings the five
\* sub-extractors of the heuristic return for the text
\*   AbstractEmpty    ''
\*   AbstractBlank49  three blanks, 'Short note on AI model accuracy for sepsis, no da', three blanks
\*   AbstractExact50  'We evaluated a CNN on the MIMIC database for sepsi'
\*   AbstractTypical  'Objective: To predict sepsis onset early. We trained a random forest and an
\*                    LSTM model using the MIMIC database of 40000 ICU stays. The deep learning
\*                    model reached an AUC of 0.91 with high sensitivity and specificity.'
\*   AbstractHuge     one sentence of 4277 characters naming 128 spellings of model names
Text(len, stripped, what_done, ai_role, models, data_sources, metrics) ==
    [len |-> len, stripped |-> stripped,
     sentences |-> [what_done |-> what_done, ai_role |-> ai_role, models |-> models,
                    data_sources |-> data_sources, metrics |-> metrics]]
AbstractEmpty   == Text(0, 0, 0, 0, 0, 0, 0)
AbstractBlank49 == Text(55, 49, 49, 49, 0, 0, 8)
AbstractExact50 == Text(50, 50, 50, 0, 3, 0, 0)
AbstractTypical == Text(217, 217, 29, 88, 19, 15, 29)
AbstractHuge    == Text(4277, 4277, 4274, 4277, 1406, 80, 36)
Abstracts == {AbstractEmpty, AbstractBlank49, AbstractExact50, AbstractTypical, AbstractHuge}

\* _extract_what_done, _extract_ai_role, _extract_models, _extract_data_sources,
\* _extract_metrics: each returns a string and raises nothing
extract_field(text, field) == Str(text.sentences[field])
SubExtracted(text) == [field \in Fields |-> extract_field(text, field)]

\* LLMExtractor._heuristic_extract
heuristic_extract(text) ==
    [field \in Fields |-> SliceTo(extract_field(text, field), Cap(field))]

\* the tuples extract returns
GLMReturn(extracted) == [extracted_data |-> extracted, needs_manual_review |-> FALSE]
\* (variant) the OpenAI return with the flag set
OpenAIReturnFlagged(extracted) == [extracted_data |-> extracted, needs_manual_review |-> TRUE]
OpenAIReturn(extracted) == [extracted_data |-> extracted, needs_manual_review |-> FALSE]
HeuristicReturn(extracted) == [extracted_data |-> extracted, needs_manual_review |-> TRUE]

\* (variant) a remote tier that falls through to the next tier even after success
AfterRemoteFallThrough(succeeded, next) == next
\* where extract goes after a remote tier: `return` on success, the next tier otherwise
AfterRemote(succeeded, next) == IF succeeded THEN "done" ELSE next

TierCall(tier, outcome) == [tier |-> tier, outcome |-> outcome]

\* the content _extract_with_openai read from the response, if it got that far
HasContent(call) == call.tier = "openai" /\ call.outcome # "request_failed"
\* (variant) an extract that hands on the text of the OpenAI tier
ReturnedRawOutputOfTier(calls) ==
    IF \E i \in 1..Len(calls) : HasContent(calls[i]) THEN "content" ELSE "None"
\* the third element of every return statement of extract: None
ReturnedRawOutput(calls) == "None"

ExtractIdle ==
    /\ glm_client = FALSE
    /\ openai_client = FALSE
    /\ abstract = AbstractEmpty
    /\ tier_calls = <<>>
    /\ raw = EmptyResult
    /\ extraction_result = EmptyResult
    /\ needs_manual_review = FALSE

\* MedRxivHarvester: articles, the combined record, the cache
HarvestIds == {"", "a1", "a2"}
HarvestAbstracts == {AbstractEmpty, AbstractBlank49, AbstractExact50, AbstractHuge}
\* a key the dict of an article does not have
AbsentKey == "(absent)"
\* the source tag of the articles of the model, by their id
SourceOf(id) == CASE id = "a1" -> "medrxiv" [] id = "a2" -> "pubmed" [] OTHER -> AbsentKey
HarvestArticle(id, text) == [id |-> id, abstract |-> text, source |-> SourceOf(id)]
HarvestUniverse == {HarvestArticle(id, text) : id \in HarvestIds, text \in HarvestAbstracts}
ListsUpTo(S, n) == UNION {[1..k -> S] : k \in 0..n}

\* {**article, **extraction_result, 'needs_manual_review': ..., 'raw_llm_output': ...}
Combine(article, extracted, flag, raw_output) ==
    [id |-> article.id, abstract |-> article.abstract, source |-> article.source,
     what_done |-> extracted["what_done"], ai_role |-> extracted["ai_role"],
     models |-> extracted["models"], data_sources |-> extracted["data_sources"],
     metrics |-> extracted["metrics"],
     needs_manual_review |-> flag, raw_llm_output |-> raw_output]

\* (variant) an abstract of exactly 50 characters counted as too short
ShortAbstractInclusive(text) == text.len = 0 \/ text.stripped <= MinAbstractLength
\* if not abstract or len(abstract.strip()) < 50
ShortAbstract(text) == text.len = 0 \/ text.stripped < MinAbstractLength
ShortAbstractReturn ==
    [extracted_data |-> EmptyResult, needs_manual_review |-> TRUE, raw_llm_output |-> "None"]

EmptyCache == [id \in {} |-> Combine(HarvestArticle("", AbstractEmpty), EmptyResult, FALSE, "None")]
\* self.cache[article_id] = processed_article
CachePut(c, id, processed) ==
    [k \in DOMAIN c \cup {id} |-> IF k = id THEN processed ELSE c[k]]
\* a cache file left by an earlier run
LoadedCaches ==
    {EmptyCache}
    \cup {CachePut(EmptyCache, "a1",
                   Combine(HarvestArticle("a1", AbstractTypical), ParsedShort, flag, "None"))
          : flag \in BOOLEAN}

\* the cache file: absent, holding a dict, or unreadable
File(state, content) == [state |-> state, content |-> content]
AbsentFile == File("absent", EmptyCache)
CorruptFile == File("corrupt", EmptyCache)
FileHolding(c) == File("valid", c)

\* (variant) a run that starts with an empty cache whatever the file holds
load_cache_ignoring_file(file) == EmptyCache
\* MedRxivHarvester._load_cache: the dict in the file; {} when there is no file or it
\* cannot be read
load_cache(file) == IF file.state = "valid" THEN file.content ELSE EmptyCache

\* MedRxivHarvester._save_cache: the file afterwards.  The write can fail before the
\* file is opened (it stays as it was) or while json.dump writes (it is left
\* unreadable); the exception is logged and swallowed.
SaveOutcomes == {"saved", "not_opened", "broken_off"}
save_cache(file, c, how) ==
    CASE how = "saved" -> FileHolding(c)
      [] how = "not_opened" -> file
      [] how = "broken_off" -> CorruptFile

\* one entry of the trace
Event(event, at, id) == [run |-> run, event |-> event, at |-> at, id |-> id]

\* (variant) caching whatever the identifier
ShouldCacheAlways(id) == TRUE
\* if article_id:
ShouldCache(id) == id # ""

\* (variant) the cached record refreshed with the article just fetched
CachedRecordMerged(c, article) == [c[article.id] EXCEPT !.abstract = article.abstract]
\* processed_article = self.cache[article_id]
CachedRecord(c, article) == c[article.id]

\* (variant) a delay after every article, the last one included
SleepsAfterAlways(i, n) == TRUE
\* if i < len(articles) - 1 (i is 0-based there, 1-based here)
SleepsAfter(i, n) == i < n

HarvestIdle ==
    /\ harvest_articles = <<>>
    /\ index = 1
    /\ cache = EmptyCache
    /\ processed_articles = <<>>
    /\ needs_review = <<>>
    /\ produced_by = <<>>
    /\ sleeps = 0
    /\ trace = <<>>
    /\ cache_file = AbsentFile
    /\ run = 1

-----------------------------------------------------------------------------
(* MedRxivHarvester._generate_statistics and main *)

NoStatus == -1      \* main has not returned

\* article.get('source', 'unknown')
SourceKey(article) == IF article.source = AbsentKey THEN "unknown" ELSE article.source

SourceCounts(list, counted) ==
    [s \in {SourceKey(list[k]) : k \in counted} |->
        Cardinality({k \in counted : SourceKey(list[k]) = s})]

Statistics(total, breakdown, ids) ==
    [total_articles |-> total, source_breakdown |-> breakdown,
     count |-> Len(ids), article_ids |-> ids]

\* (variant) statistics that leave out the articles without a source tag
generate_statistics_of_tagged(list, ids) ==
    Statistics(Len(list),
               SourceCounts(list, {k \in 1..Len(list) : list[k].source # AbsentKey}), ids)
\* MedRxivHarvester._generate_statistics
generate_statistics(list, ids) ==
    Statistics(Len(list), SourceCounts(list, 1..Len(list)), ids)

NoStatistics == Statistics(0, SourceCounts(<<>>, {}), <<>>)

MainIdle ==
    /\ statistics = NoStatistics
    /\ exit_status = NoStatus

-----------------------------------------------------------------------------
(* The retry loops: ArticleFetcher._make_request_with_retry and             *)
(* GLMClient._make_request                                                  *)

DefaultMaxRetries == 5
DefaultInitialDelay == 1
MaxDelay == 32

TransportFailure == 0    \* requests.get / requests.post raised (timeout, connection error)
NoResponse == -1         \* nothing was returned to the caller

\* the statuses the loops name, one success status they do not name, one client error
Transient == {429, 500, 502, 503, 504}
Statuses == {200, 204, 404, 429, 500}

\* response.raise_for_status() raises HTTPError, a RequestException, for 4xx and 5xx
RaisesForStatus(status) == status >= 400 /\ status <= 599

\* delay = min(delay * 2, 32)
Backoff(seconds) == IF seconds * 2 <= MaxDelay THEN seconds * 2 ELSE MaxDelay

\* (variant) a loop that runs once more than range(max_retries)
InRangeInclusive(n, limit) == n <= limit
\* for attempt in range(max_retries)
InRange(n, limit) == n < limit

\* if attempt < max_retries - 1
RetriesLeft(n, limit) == n < limit - 1

\* What one iteration of the loop does with what the request came to:
\*   "return"       the response goes back to the caller
\*   "sleep_retry"  time.sleep(delay), delay doubled, next attempt
\*   "retry"        next attempt at once
\*   "raise"        Exception("... failed after N attempts") reaches the caller
\* A status that raise_for_status raises for lands in the except clause of the same
\* try block, like a failure of the request itself.
Iteration(which, status, n, limit) ==
    IF status = TransportFailure
    THEN IF RetriesLeft(n, limit) THEN "sleep_retry" ELSE "raise"
    ELSE IF status = 200 THEN "return"
    ELSE IF status \in Transient /\ RetriesLeft(n, limit) THEN "sleep_retry"
    ELSE IF RaisesForStatus(status)
         THEN IF RetriesLeft(n, limit) THEN "sleep_retry" ELSE "raise"
    ELSE IF which = "fetch" THEN "return"    \* fetch_articles.py: return response
    ELSE "retry"                             \* glm_client.py: the try block just ends

Sleep(before_retry, seconds) == [before_retry |-> before_retry, seconds |-> seconds]

RetryIdle ==
    /\ loop = "fetch"
    /\ max_retries = DefaultMaxRetries
    /\ initial_delay = DefaultInitialDelay
    /\ attempt = 0
    /\ delay = DefaultInitialDelay
    /\ responses = <<>>
    /\ slept = <<>>
    /\ call_state = "idle"
    /\ response = NoResponse
    /\ exceptions = 0

\* delay = initial_delay; last_exception = None: the call has started
RetryStarted(which, limit, first_delay) ==
    /\ loop = which
    /\ max_retries = limit
    /\ initial_delay = first_delay
    /\ attempt = 0
    /\ delay = first_delay
    /\ responses = <<>>
    /\ slept = <<>>
    /\ call_state = "running"
    /\ response = NoResponse
    /\ exceptions = 0

\* one iteration of the for loop: the request and what the loop does with its result
Attempt(status) ==
    /\ call_state = "running"
    /\ InRange(attempt, max_retries)
    /\ responses' = Append(responses, status)
    /\ LET does == Iteration(loop, status, attempt, max_retries)
       IN /\ call_state' = CASE does = "return" -> "returned"
                          [] does = "raise" -> "raised"
                          [] OTHER -> "running"
          /\ response' = IF does = "return" THEN status ELSE response
          /\ exceptions' = IF does = "raise" THEN exceptions + 1 ELSE exceptions
          /\ slept' = IF does = "sleep_retry"
                      THEN Append(slept, Sleep(attempt + 1, delay)) ELSE slept
          /\ delay' = IF does = "sleep_retry" THEN Backoff(delay) ELSE delay
          /\ attempt' = IF does \in {"sleep_retry", "retry"} THEN attempt + 1 ELSE attempt
    /\ UNCHANGED <<loop, max_retries, initial_delay>>

\* the loop ran out: raise Exception("... failed after N attempts") from last_exception
LoopExhausted ==
    /\ call_state = "running"
    /\ ~InRange(attempt, max_retries)
    /\ call_state' = "raised"
    /\ exceptions' = exceptions + 1
    /\ UNCHANGED <<loop, max_retries, initial_delay, attempt, delay, responses, slept,
                   response>>

-----------------------------------------------------------------------------
(* The two retry loops, each run to its end on one sequence of answers *)

\* one of each kind of answer: 200, another status below 400, 429, a 5xx status,
\* another 4xx status, no answer at all
AnswerKinds == {200, 204, 429, 500, 404, TransportFailure}

LoopResult(requests, pauses, outcome, status) ==
    [requests |-> requests, sleeps |-> pauses, outcome |-> outcome, status |-> status]

\* the for loop from iteration n on, with `seconds` in delay and `pauses` slept so far;
\* iteration n sends request n + 1, which the server answers with given[n + 1]
RECURSIVE RunLoop(_, _, _, _, _, _)
RunLoop(which, given, limit, n, seconds, pauses) ==
    IF ~InRange(n, limit) THEN LoopResult(n, pauses, "raised", NoResponse)
    ELSE LET does == Iteration(which, given[n + 1], n, limit)
         IN CASE does = "return" -> LoopResult(n + 1, pauses, "returned", given[n + 1])
              [] does = "raise" -> LoopResult(n + 1, pauses, "raised", NoResponse)
              [] does = "sleep_retry" ->
                     RunLoop(which, given, limit, n + 1, Backoff(seconds),
                             Append(pauses, seconds))
              [] OTHER -> RunLoop(which, given, limit, n + 1, seconds, pauses)

\* _make_request_with_retry(url) with the defaults max_retries=5, initial_delay=1.0
make_request_with_retry(given) ==
    RunLoop("fetch", given, DefaultMaxRetries, 0, DefaultInitialDelay, <<>>)
\* GLMClient._make_request(messages) with the defaults max_retries=5, initial_delay=1.0
make_request(given) ==
    RunLoop("glm", given, DefaultMaxRetries, 0, DefaultInitialDelay, <<>>)

NotRun == LoopResult(0, <<>>, "pending", NoResponse)

PolicyIdle ==
    /\ served = <<>>
    /\ fetch_run = NotRun
    /\ glm_run = NotRun

\* the calls modelled on their own, before any of them
RestIdle == MainIdle /\ ResolverIdle /\ ParseIdle /\ PolicyIdle

-----------------------------------------------------------------------------
(* ArticleFetcher.fetch_articles *)

DefaultMaxArticles == 200

Adapters == <<"biomodel", "medrxiv", "biorxiv", "pubmed", "arxiv">>

\* what one source can return in the model: nothing, one record, two records
Batches(source) ==
    LET one == Article(source, <<"d1", "u1", TitleA, "2025-03-01T00:00:00">>)
        two == Article(source, <<"d2", "u3", TitleB, "2024-11-30T00:00:00">>)
    IN {<<>>, <<one>>, <<one, two>>}

\* re.search(r'\b(\d{4})\b', str(published_at)): the first 4-digit number
YearIn(published_at) ==
    CASE published_at = "2025-03-01T00:00:00" -> 2025
      [] published_at = "2024-11-30T00:00:00" -> 2024
      [] OTHER -> NoYear

\* _article_in_year
article_in_year(article, y) ==
    IF article.published_at = "" THEN FALSE
    ELSE IF YearIn(article.published_at) # NoYear THEN YearIn(article.published_at) = y
    ELSE FALSE

\* s[:n]
Take(s, n) == IF Len(s) <= n THEN s ELSE SubSeq(s, 1, n)

Call(status, batch) == [status |-> status, batch |-> batch]

\* the fetcher while no call of fetch_articles is modelled
FetchIdle ==
    /\ biomodel_api_key = FALSE
    /\ year = NoYear
    /\ max_articles = DefaultMaxArticles
    /\ fetched = [a \in Range(Adapters) |-> Call("pending", <<>>)]
    /\ result = <<>>

\* (variant) an adapter's failure discards what the earlier adapters returned
ArticlesAfterFailureReset(arts) == <<>>

\* `except Exception as e: logger.warning(...)`: articles is left as it was
ArticlesAfterFailure(arts) == arts

\* one `try: ... articles.extend(...) except Exception: logger.warning(...)` block
\* of fetch_articles, for an adapter that raises or returns a list
TryAdapter(adapter, next) ==
    /\ pc = adapter
    /\ \/ \E batch \in Batches(adapter) :
            /\ articles' = articles \o batch
            /\ fetched' = [fetched EXCEPT ![adapter] = Call("returned", batch)]
       \/ /\ articles' = ArticlesAfterFailure(articles)
          /\ fetched' = [fetched EXCEPT ![adapter] = Call("failed", <<>>)]
    /\ pc' = next
    /\ UNCHANGED <<extractVars, harvestVars, fuzz_available, restVars, retryVars, deduplicated, found,
                   biomodel_api_key, year, max_articles, result>>

\* lines 68-75: BioModel is tried only when the API key is set
FetchBiomodel ==
    \/ /\ biomodel_api_key
       /\ TryAdapter("biomodel", "medrxiv")
    \/ /\ pc = "biomodel"
       /\ ~biomodel_api_key
       /\ fetched' = [fetched EXCEPT !["biomodel"] = Call("skipped", <<>>)]
       /\ pc' = "medrxiv"
       /\ UNCHANGED <<extractVars, harvestVars, fuzz_available, restVars, retryVars, dedupVars, biomodel_api_key, year, max_articles,
                      result>>

\* lines 77-83 with _fetch_from_medrxiv: the RSS fetch may raise, which
\* _fetch_from_medrxiv swallows; the search page fetch swallows its own errors
\* and returns what it has; so _fetch_from_medrxiv itself does not raise
FetchMedrxiv ==
    /\ pc = "medrxiv"
    /\ \E rss_failed \in BOOLEAN, rss \in Batches("medrxiv"), search \in Batches("medrxiv") :
          LET batch == (IF rss_failed THEN <<>> ELSE rss) \o search
          IN /\ articles' = articles \o batch
             /\ fetched' = [fetched EXCEPT !["medrxiv"] = Call("returned", batch)]
    /\ pc' = "biorxiv"
    /\ UNCHANGED <<extractVars, harvestVars, fuzz_available, restVars, retryVars, deduplicated, found,
                   biomodel_api_key, year, max_articles, result>>

FetchBiorxiv == TryAdapter("biorxiv", "pubmed")

FetchPubmed == TryAdapter("pubmed", "arxiv")

FetchArxiv == TryAdapter("arxiv", "dedup")

\* lines 109-111
FetchDeduplicate ==
    /\ pc = "dedup"
    /\ deduplicated' = deduplicate_articles(articles)
    /\ found' = DedupRun(articles).found
    /\ articles' = ArgumentAfterDedup(articles)
    /\ pc' = "filter"
    /\ UNCHANGED <<extractVars, harvestVars, fuzz_available, restVars, retryVars, fetchVars>>

\* lines 113-119: the year filter, when a year was given
FilterByYear(arts, y) ==
    IF y # NoYear THEN SelectSeq(arts, LAMBDA a : article_in_year(a, y)) ELSE arts

\* lines 113-122
FetchReturn ==
    /\ pc = "filter"
    /\ result' = Take(FilterByYear(deduplicated, year), max_articles)
    /\ pc' = "returned"
    /\ UNCHANGED <<extractVars, harvestVars, fuzz_available, restVars, retryVars, dedupVars, biomodel_api_key, year, max_articles,
                   fetched>>

InitFetch ==
    /\ pc = "biomodel"
    /\ fuzz_available \in BOOLEAN
    /\ RestIdle
    /\ articles = <<>>
    /\ deduplicated = <<>>
    /\ found = <<>>
    /\ biomodel_api_key \in BOOLEAN
    /\ year \in {NoYear, 2025}
    /\ max_articles \in {1, DefaultMaxArticles}
    /\ fetched = [a \in Range(Adapters) |-> Call("pending", <<>>)]
    /\ result = <<>>
    /\ ExtractIdle
    /\ HarvestIdle
    /\ RetryIdle

NextFetch ==
    \/ FetchBiomodel
    \/ FetchMedrxiv
    \/ FetchBiorxiv
    \/ FetchPubmed
    \/ FetchArxiv
    \/ FetchDeduplicate
    \/ FetchReturn

SpecFetch == InitFetch /\ [][NextFetch]_vars

-----------------------------------------------------------------------------
(* Specification of _deduplicate_articles on every list of at most          *)
(* MaxArticles records                                                      *)

InitDedup ==
    /\ pc = "input"
    /\ fuzz_available \in BOOLEAN
    /\ RestIdle
    /\ articles = <<>>
    /\ deduplicated = <<>>
    /\ found = <<>>
    /\ FetchIdle
    /\ ExtractIdle
    /\ HarvestIdle
    /\ RetryIdle

AddArticle ==
    /\ pc = "input"
    /\ Len(articles) < MaxArticles
    /\ \E a \in ArticleUniverse : articles' = Append(articles, a)
    /\ UNCHANGED <<extractVars, harvestVars, pc, fuzz_available, restVars, retryVars, deduplicated, found, fetchVars>>

Deduplicate ==
    /\ pc = "input"
    /\ deduplicated' = deduplicate_articles(articles)
    /\ found' = DedupRun(articles).found
    /\ articles' = ArgumentAfterDedup(articles)
    /\ pc' = "deduplicated"
    /\ UNCHANGED <<extractVars, harvestVars, fuzz_available, restVars, retryVars, fetchVars>>

NextDedup == AddArticle \/ Deduplicate

SpecDedup == InitDedup /\ [][NextDedup]_vars

-----------------------------------------------------------------------------
(* Properties of _deduplicate_articles *)

Deduplicated == pc = "deduplicated"

\* the input in the order the loop visits it
Sorted == SortByPriority(articles)

\* biomodel before medrxiv before every other source
Rank(source) == IF source = "biomodel" THEN 0 ELSE IF source = "medrxiv" THEN 1 ELSE 2

SameId(a, b)  == a.id # "" /\ a.id = b.id
SameUrl(a, b) == a.url # "" /\ a.url = b.url
TitleRatio(a, b) == Ratio(normalize_title(a.title), normalize_title(b.title))
SimilarTitle(a, b) == a.title # <<>> /\ TitleRatio(a, b) > 90

Count(r, s) == Cardinality({i \in 1..Len(s) : s[i] = r})

\* C1: a record is discarded only if its non-empty identifier equals the
\* identifier of an earlier record (in priority-sorted order), or its non-empty
\* URL equals the URL of an earlier record, or its non-empty title is more than
\* 90% similar to the title of an accepted record; so a record that matches no
\* other record on any of the three keys is accepted, a single record and a
\* record whose identifier is its own URL included.
C1_DiscardedOnlyAsDuplicate ==
    Deduplicated =>
        \A i \in 1..Len(Sorted) :
            found[i] =>
                \/ \E j \in 1..(i - 1) : SameId(Sorted[i], Sorted[j])
                \/ \E j \in 1..(i - 1) : SameUrl(Sorted[i], Sorted[j])
                \/ \E j \in 1..(i - 1) : ~found[j] /\ SimilarTitle(Sorted[i], Sorted[j])

\* C2: of two records with the same non-empty identifier and sources of
\* different priority, the output contains the higher-priority record unchanged
\* and not the lower-priority one, whatever else is in the list.
C2_HigherPriorityRecordKept ==
    Deduplicated =>
        \A i, j \in 1..Len(articles) :
            (SameId(articles[i], articles[j])
                /\ Rank(articles[i].source) < Rank(articles[j].source))
            => /\ articles[i] \in Range(deduplicated)
               /\ articles[j] \notin Range(deduplicated)

\* C3: three records of three different sources with the same identifier are
\* deduplicated to exactly one record, the one of the highest-priority source
\* (the earliest in the input among those of the highest priority).
C3_ThreeSourcesOneRecord ==
    (/\ Deduplicated
     /\ Len(articles) = 3
     /\ \A i, j \in 1..3 : SameId(articles[i], articles[j])
     /\ \A i, j \in 1..3 : i # j => articles[i].source # articles[j].source)
    => deduplicated = <<Sorted[1]>>

\* the two records have distinct identifiers and distinct URLs
TwoDistinctRecords ==
    /\ Deduplicated
    /\ Len(articles) = 2
    /\ articles[1].id # articles[2].id
    /\ articles[1].url # articles[2].url

\* no identifier of the two records is the same string as one of their URLs
NoIdIsUrl ==
    {articles[1].id, articles[2].id} \cap {articles[1].url, articles[2].url} = {}

\* C4 (as claimed): of two records with distinct identifiers and distinct URLs
\* only the earlier-priority one is kept when the ratio of the normalized titles
\* is 90 or more, and both are kept when it is below 90.  Stated for the records
\* the claim is least disputable for: no identifier is a URL, both have a title.
C4_CollapseAtNinetyOrMore ==
    (TwoDistinctRecords /\ NoIdIsUrl
        /\ articles[1].title # <<>> /\ articles[2].title # <<>>)
    => IF TitleRatio(Sorted[1], Sorted[2]) >= 90
       THEN deduplicated = <<Sorted[1]>>
       ELSE deduplicated = Sorted

\* C4 (amended): for two records with distinct identifiers and distinct URLs, in
\* priority-sorted order, the later one is dropped for its title exactly when the
\* earlier one was accepted, the later title is non-empty and the ratio is more
\* than 90 (exactly 90 keeps both); apart from that a record is dropped exactly
\* when its non-empty identifier or URL is already a key of the one dict seen.
C4_CollapseOverNinety ==
    TwoDistinctRecords =>
        LET a == Sorted[1]
            b == Sorted[2]
            aKey   == a.id # "" /\ a.id = a.url
            bKey   == \/ b.id # "" /\ b.id = a.url
                      \/ b.url # "" /\ b.url \in {a.id, b.id}
            bTitle == ~aKey /\ b.title # <<>> /\ TitleRatio(b, a) > 90
        IN deduplicated = (IF aKey THEN <<>> ELSE <<a>>)
                            \o (IF bKey \/ bTitle THEN <<>> ELSE <<b>>)

\* C4 witness: two records with a title ratio of exactly 90 were both kept
C4_Witness ==
    /\ TwoDistinctRecords /\ NoIdIsUrl
    /\ articles[1].title # <<>> /\ articles[2].title # <<>>
    /\ TitleRatio(Sorted[1], Sorted[2]) = 90
    /\ deduplicated = Sorted

\* C5: the call is a filter: every output record is an input record with every
\* field unchanged, no record is more frequent in the output than in the input,
\* and the input list is the same after the call.
C5_DedupIsFilter ==
    [][(pc = "input" /\ pc' = "deduplicated")
        => /\ articles' = articles
           /\ \A r \in Range(deduplicated') :
                 r \in Range(articles) /\ Count(r, deduplicated') <= Count(r, articles)]_vars

\* C5 witness: a call that kept some records and discarded others, on an input
\* that was not in priority order
C5_Witness ==
    /\ Deduplicated
    /\ Len(deduplicated) >= 1
    /\ Len(deduplicated) < Len(articles)
    /\ Sorted # articles

\* the positions of the sorted input whose record was kept / discarded
Kept == {i \in 1..Len(Sorted) : ~found[i]}
Discarded == {i \in 1..Len(Sorted) : found[i]}
NoOwnUrlAsId == \A i \in 1..Len(articles) : articles[i].id = "" \/ articles[i].id # articles[i].url

\* C27: every discarded record is a duplicate of a record of the output: some kept
\* record has the same non-empty identifier, or the same non-empty URL, or a title
\* more than 90% similar; so a record that was itself discarded never makes a later
\* record be discarded.
C27_DiscardedHasKeptDuplicate ==
    Deduplicated =>
        \A i \in Discarded :
            \E j \in Kept :
                \/ SameId(Sorted[i], Sorted[j])
                \/ SameUrl(Sorted[i], Sorted[j])
                \/ SimilarTitle(Sorted[i], Sorted[j])

\* C27, for the inputs that C1's defect does not touch (no record has its own URL as
\* identifier): the same statement
C27_DiscardedHasKeptDuplicateApartFromC1 ==
    (Deduplicated /\ NoOwnUrlAsId) =>
        \A i \in Discarded :
            \E j \in Kept :
                \/ SameId(Sorted[i], Sorted[j])
                \/ SameUrl(Sorted[i], Sorted[j])
                \/ SimilarTitle(Sorted[i], Sorted[j])

\* the pairs of titles of the model of which the first is non-empty and more than 90%
\* similar to the second, with fuzzywuzzy (TRUE) and with the fallback (FALSE)
SimilarTitles ==
    [fuzzy \in BOOLEAN |->
        {pair \in Titles \X Titles :
            /\ pair[1] # <<>>
            /\ (IF fuzzy
                THEN FuzzyRatioTable[<<normalize_title(pair[1]), normalize_title(pair[2])>>]
                ELSE FallbackRatio(normalize_title(pair[1]), normalize_title(pair[2]))) > 90}]

\* C28: the output holds no two records with the same non-empty identifier, no two
\* with the same non-empty URL and no record whose non-empty title is more than 90%
\* similar to the title of an earlier output record; its records are in the order
\* biomodel, medrxiv, others, and records of equal priority are in input order.
C28_OutputFreeOfDuplicatesAndOrdered ==
    Deduplicated =>
        /\ \A i, j \in 1..Len(deduplicated) :
              i < j =>
                 /\ ~SameId(deduplicated[i], deduplicated[j])
                 /\ ~SameUrl(deduplicated[i], deduplicated[j])
                 /\ <<deduplicated[j].title, deduplicated[i].title>>
                       \notin SimilarTitles[fuzz_available]
                 /\ Rank(deduplicated[i].source) <= Rank(deduplicated[j].source)
        /\ \A i, j \in 1..Len(deduplicated) :
              (i < j /\ Rank(deduplicated[i].source) = Rank(deduplicated[j].source)) =>
                 \E p, q \in 1..Len(articles) :
                    p < q /\ articles[p] = deduplicated[i] /\ articles[q] = deduplicated[j]

C28_Witness ==
    /\ Deduplicated
    /\ Len(articles) = 3
    /\ Len(deduplicated) = 2
    /\ Sorted # articles
    /\ Rank(deduplicated[1].source) = Rank(deduplicated[2].source)

\* C29: the call is idempotent: applied to its own output it returns that output, the
\* same records in the same order.
C29_DedupIdempotent ==
    Deduplicated => deduplicate_articles(deduplicated) = deduplicated

C29_Witness ==
    /\ Deduplicated
    /\ Len(articles) = 3
    /\ Len(deduplicated) = 2
    /\ deduplicated[1].source = deduplicated[2].source
    /\ deduplicate_articles(deduplicated) = deduplicated

-----------------------------------------------------------------------------
(* Properties of fetch_articles *)

ReturnedBatch(adapter) ==
    IF fetched[adapter].status = "returned" THEN fetched[adapter].batch ELSE <<>>

\* the records of the adapters that did not fail, in the fixed order
Survivors ==
    ReturnedBatch("biomodel") \o ReturnedBatch("medrxiv") \o ReturnedBatch("biorxiv")
        \o ReturnedBatch("pubmed") \o ReturnedBatch("arxiv")

\* C6: whichever adapters raise, fetch_articles returns normally; its result is
\* computed from exactly the records of the adapters that did not fail, in the
\* order BioModel, medRxiv, bioRxiv, PubMed, arXiv, deduplicated (then filtered by
\* year and cut to max_articles); deduplication starts only after every adapter
\* has finished or failed.
C6_AdapterFailuresNotFatal ==
    /\ pc \in {"dedup", "filter", "returned"}
        => /\ \A a \in Range(Adapters) : fetched[a].status # "pending"
           /\ articles = Survivors
    /\ pc \notin {"filter", "returned"} => deduplicated = <<>> /\ found = <<>>
    /\ pc \in {"filter", "returned"} => deduplicated = deduplicate_articles(Survivors)
    /\ pc = "returned"
        => result = Take(FilterByYear(deduplicate_articles(Survivors), year), max_articles)
    /\ \/ pc \in {"dedup", "filter", "returned"}
       \/ ENABLED (FetchBiomodel \/ FetchMedrxiv \/ FetchBiorxiv \/ FetchPubmed \/ FetchArxiv)

\* C6 witness: BioModel, bioRxiv and PubMed raised, and the call returned the
\* records of the sources that were left
C6_Witness ==
    /\ pc = "returned"
    /\ fetched["biomodel"].status = "failed"
    /\ fetched["biorxiv"].status = "failed"
    /\ fetched["pubmed"].status = "failed"
    /\ Len(fetched["medrxiv"].batch) >= 1
    /\ Len(fetched["arxiv"].batch) >= 1
    /\ Len(result) >= 2

-----------------------------------------------------------------------------
(* LLMExtractor.extract: one call, tier by tier *)

\* if self.glm_client: try: result = self.glm_client.extract_structured_info(abstract)
TryGLM ==
    /\ pc = "glm"
    /\ \/ /\ glm_client
          /\ \E answer \in GLMAnswers :
                LET called == extract_structured_info(answer)
                    returned == GLMReturn(called.result)
                IN /\ tier_calls' = Append(tier_calls, TierCall("glm", answer.outcome))
                   /\ pc' = AfterRemote(~called.raised, "openai")
                   /\ IF called.raised
                      THEN UNCHANGED <<raw, extraction_result, needs_manual_review>>
                      ELSE /\ raw' = answer.parsed
                           /\ extraction_result' = returned.extracted_data
                           /\ needs_manual_review' = returned.needs_manual_review
       \/ /\ ~glm_client
          /\ pc' = "openai"
          /\ UNCHANGED <<tier_calls, raw, extraction_result, needs_manual_review>>
    /\ UNCHANGED <<glm_client, openai_client, abstract, harvestVars, fuzz_available, restVars, retryVars,
                   dedupVars, fetchVars>>

\* if self.openai_client: try: result, raw_output = self._extract_with_openai(abstract)
TryOpenAI ==
    /\ pc = "openai"
    /\ \/ /\ openai_client
          /\ \E answer \in OpenAIAnswers :
                LET called == extract_with_openai(answer)
                    returned == OpenAIReturn(called.result)
                IN /\ tier_calls' = Append(tier_calls, TierCall("openai", answer.outcome))
                   /\ pc' = AfterRemote(Truthy(called), "heuristic")
                   /\ IF Truthy(called)
                      THEN /\ raw' = answer.parsed
                           /\ extraction_result' = returned.extracted_data
                           /\ needs_manual_review' = returned.needs_manual_review
                      ELSE UNCHANGED <<raw, extraction_result, needs_manual_review>>
       \/ /\ ~openai_client
          /\ pc' = "heuristic"
          /\ UNCHANGED <<tier_calls, raw, extraction_result, needs_manual_review>>
    /\ UNCHANGED <<glm_client, openai_client, abstract, harvestVars, fuzz_available, restVars, retryVars,
                   dedupVars, fetchVars>>

\* result = self._heuristic_extract(abstract); return result, True, None
Heuristic ==
    /\ pc = "heuristic"
    /\ LET returned == HeuristicReturn(heuristic_extract(abstract))
       IN /\ tier_calls' = Append(tier_calls, TierCall("heuristic", "object"))
          /\ raw' = SubExtracted(abstract)
          /\ extraction_result' = returned.extracted_data
          /\ needs_manual_review' = returned.needs_manual_review
    /\ pc' = "done"
    /\ UNCHANGED <<glm_client, openai_client, abstract, harvestVars, fuzz_available, restVars, retryVars,
                   dedupVars, fetchVars>>

InitExtract ==
    /\ pc = "glm"
    /\ fuzz_available = TRUE
    /\ RestIdle
    /\ articles = <<>>
    /\ deduplicated = <<>>
    /\ found = <<>>
    /\ FetchIdle
    /\ glm_client \in BOOLEAN
    /\ openai_client \in BOOLEAN
    /\ abstract \in Abstracts
    /\ tier_calls = <<>>
    /\ raw = EmptyResult
    /\ extraction_result = EmptyResult
    /\ needs_manual_review = FALSE
    /\ HarvestIdle
    /\ RetryIdle

NextExtract == TryGLM \/ TryOpenAI \/ Heuristic

SpecExtract == InitExtract /\ [][NextExtract]_vars

\* extract is straight-line code: a call that has started runs on to its return
SpecExtractLive == SpecExtract /\ WF_vars(NextExtract)

-----------------------------------------------------------------------------
(* MedRxivHarvester.harvest: the loop over the articles *)

Current == harvest_articles[index]
InLoop == pc = "loop" /\ index <= Len(harvest_articles)

\* the end of the miss branch and of the iteration: combine, cache, sleep, append
Processed(article, returned, before) ==
    LET processed == Combine(article, returned.extracted_data, returned.needs_manual_review,
                             returned.raw_llm_output)
        sleeping == SleepsAfter(index, Len(harvest_articles))
    IN /\ cache' = IF ShouldCache(article.id)
                   THEN CachePut(cache, article.id, processed) ELSE cache
       /\ sleeps' = IF sleeping THEN sleeps + 1 ELSE sleeps
       /\ trace' = trace \o before
                         \o (IF sleeping THEN <<Event("sleep", index, article.id)>> ELSE <<>>)
       /\ processed_articles' = Append(processed_articles, processed)
       /\ needs_review' = IF processed.needs_manual_review
                          THEN Append(needs_review, article.id) ELSE needs_review
       /\ index' = index + 1

\* if article_id in self.cache: processed_article = self.cache[article_id]
HarvestCached ==
    /\ InLoop
    /\ Current.id \in DOMAIN cache
    /\ processed_articles' = Append(processed_articles, CachedRecord(cache, Current))
    /\ needs_review' = IF CachedRecord(cache, Current).needs_manual_review
                       THEN Append(needs_review, Current.id) ELSE needs_review
    /\ produced_by' = Append(produced_by, "cache")
    /\ trace' = Append(trace, Event("hit", index, Current.id))
    /\ index' = index + 1
    /\ UNCHANGED <<pc, harvest_articles, cache, sleeps, cache_file, run, extractVars, fuzz_available, restVars, retryVars,
                   dedupVars, fetchVars>>

\* if not abstract or len(abstract.strip()) < 50: five empty strings, flagged
HarvestShort ==
    /\ InLoop
    /\ Current.id \notin DOMAIN cache
    /\ ShortAbstract(Current.abstract)
    /\ Processed(Current, ShortAbstractReturn, <<Event("short", index, Current.id)>>)
    /\ produced_by' = Append(produced_by, "short")
    /\ UNCHANGED <<pc, harvest_articles, cache_file, run, extractVars, fuzz_available, restVars, retryVars, dedupVars, fetchVars>>

\* else: self.extractor.extract(abstract) is called
HarvestExtract ==
    /\ InLoop
    /\ Current.id \notin DOMAIN cache
    /\ ~ShortAbstract(Current.abstract)
    /\ abstract' = Current.abstract
    /\ tier_calls' = <<>>
    /\ pc' = "glm"
    /\ trace' = Append(trace, Event("extract", index, Current.id))
    /\ UNCHANGED <<glm_client, openai_client, raw, extraction_result, needs_manual_review,
                   harvest_articles, index, cache, processed_articles, needs_review,
                   produced_by, sleeps, cache_file, run, fuzz_available, restVars, retryVars, dedupVars, fetchVars>>

\* extract has returned: the rest of the iteration
HarvestCombine ==
    /\ pc = "done"
    /\ Processed(Current, [extracted_data |-> extraction_result,
                           needs_manual_review |-> needs_manual_review,
                           raw_llm_output |-> ReturnedRawOutput(tier_calls)], <<>>)
    /\ produced_by' = Append(produced_by, tier_calls[Len(tier_calls)].tier)
    /\ pc' = "loop"
    /\ UNCHANGED <<harvest_articles, cache_file, run, extractVars, fuzz_available, restVars, retryVars, dedupVars, fetchVars>>

\* the loop is over: the cache is saved and harvest returns
HarvestFinish ==
    /\ pc = "loop"
    /\ index > Len(harvest_articles)
    /\ pc' = "harvested"
    /\ \E how \in SaveOutcomes :
          /\ cache_file' = save_cache(cache_file, cache, how)
          /\ trace' = Append(trace, Event(how, index, ""))
    /\ UNCHANGED <<harvest_articles, index, cache, processed_articles, needs_review,
                   produced_by, sleeps, run, extractVars, fuzz_available, restVars, retryVars, dedupVars, fetchVars>>

InitHarvest ==
    /\ pc = "loop"
    /\ fuzz_available = TRUE
    /\ RestIdle
    /\ articles = <<>>
    /\ deduplicated = <<>>
    /\ found = <<>>
    /\ FetchIdle
    /\ glm_client \in BOOLEAN
    /\ openai_client \in BOOLEAN
    /\ abstract = AbstractEmpty
    /\ tier_calls = <<>>
    /\ raw = EmptyResult
    /\ extraction_result = EmptyResult
    /\ needs_manual_review = FALSE
    /\ harvest_articles \in ListsUpTo(HarvestUniverse, MaxHarvest)
    /\ index = 1
    /\ cache \in LoadedCaches
    /\ processed_articles = <<>>
    /\ needs_review = <<>>
    /\ produced_by = <<>>
    /\ sleeps = 0
    /\ trace = <<>>
    /\ cache_file = (IF cache = EmptyCache THEN AbsentFile ELSE FileHolding(cache))
    /\ run = 1
    /\ RetryIdle

NextHarvest ==
    \/ HarvestCached
    \/ HarvestShort
    \/ HarvestExtract
    \/ TryGLM
    \/ TryOpenAI
    \/ Heuristic
    \/ HarvestCombine
    \/ HarvestFinish

SpecHarvest == InitHarvest /\ [][NextHarvest]_vars

-----------------------------------------------------------------------------
(* Properties of LLMExtractor.extract *)

Returned == pc = "done"
TierRank(tier) == CASE tier = "glm" -> 1 [] tier = "openai" -> 2 [] tier = "heuristic" -> 3
Succeeded(call) == call.outcome = "object"
CalledAt(tier) == {k \in 1..Len(tier_calls) : tier_calls[k].tier = tier}
Configured(tier) == (tier = "glm" /\ glm_client) \/ (tier = "openai" /\ openai_client)
FailedBefore(tier, k) == \E j \in 1..(k - 1) : tier_calls[j].tier = tier /\ ~Succeeded(tier_calls[j])

\* C7: within one call of extract the tiers are called in the order GLM, OpenAI,
\* heuristic and each at most once; a remote tier is called only when it is
\* configured; OpenAI is called only when GLM is not configured or has failed; the
\* heuristic is called only when every configured remote tier was called and failed;
\* no tier is called after one has succeeded; and the call returns with the first
\* configured tier called first and the last tier called having succeeded.
C7_TiersInOrderAtMostOnce ==
    pc \in {"glm", "openai", "heuristic", "done"} =>
    /\ \A j, k \in 1..Len(tier_calls) :
          j < k => TierRank(tier_calls[j].tier) < TierRank(tier_calls[k].tier)
    /\ \A k \in 1..Len(tier_calls) : k < Len(tier_calls) => ~Succeeded(tier_calls[k])
    /\ \A k \in CalledAt("glm") : glm_client
    /\ \A k \in CalledAt("openai") : openai_client /\ (~glm_client \/ FailedBefore("glm", k))
    /\ \A k \in CalledAt("heuristic") :
          /\ glm_client => FailedBefore("glm", k)
          /\ openai_client => FailedBefore("openai", k)
    /\ Returned =>
          /\ Len(tier_calls) >= 1
          /\ Succeeded(tier_calls[Len(tier_calls)])
          /\ glm_client => tier_calls[1].tier = "glm"
          /\ (~glm_client /\ openai_client) => tier_calls[1].tier = "openai"
          /\ (~glm_client /\ ~openai_client) => tier_calls[1].tier = "heuristic"

C7_Witness ==
    /\ Returned
    /\ Len(tier_calls) = 3
    /\ tier_calls[1] = TierCall("glm", "no_json")
    /\ tier_calls[2] = TierCall("openai", "request_failed")
    /\ tier_calls[3].tier = "heuristic"

IsString(value) == value.type = "str"
CompleteResult(extracted) ==
    DOMAIN extracted = Fields /\ \A field \in Fields : IsString(extracted[field])

\* C9: whatever the abstract (the empty one included), whichever remote tiers are
\* configured and whatever comes of their calls, extract never leaves its tier
\* sequence through an exception, what it returns has exactly the five keys, each
\* mapped to a string and none to None, and every call returns.
C9_AlwaysCompleteResult ==
    /\ [](/\ pc \in {"glm", "openai", "heuristic", "done"}
          /\ Returned => CompleteResult(extraction_result))
    /\ <>Returned

C9_Witness ==
    /\ Returned
    /\ abstract = AbstractEmpty
    /\ Len(tier_calls) = 2
    /\ tier_calls[1] = TierCall("glm", "not_an_object")
    /\ tier_calls[2] = TierCall("openai", "object")
    /\ raw = ParsedNulls
    /\ extraction_result["what_done"] = Str(0)

\* C10: in every result extract returns, from whichever tier and however long the
\* abstract and the remote answer, what_done and ai_role are at most 2000 long and
\* models, data_sources and metrics at most 500.
C10_FieldsWithinCaps ==
    Returned =>
    /\ extraction_result["what_done"].len <= CapLong
    /\ extraction_result["ai_role"].len <= CapLong
    /\ extraction_result["models"].len <= CapShort
    /\ extraction_result["data_sources"].len <= CapShort
    /\ extraction_result["metrics"].len <= CapShort

C10_Witness ==
    /\ Returned
    /\ tier_calls[Len(tier_calls)].tier = "heuristic"
    /\ raw["what_done"].len > CapLong
    /\ raw["models"].len > CapShort
    /\ extraction_result["what_done"].len = CapLong
    /\ extraction_result["models"].len = CapShort

TestedMaximum == 400

\* the length of the string a candidate value becomes: None and a missing key give ''
CandidateLength(candidate, field) ==
    IF field \notin DOMAIN candidate THEN 0
    ELSE IF candidate[field].type = "NoneType" THEN 0 ELSE candidate[field].len
Shorter(m, n) == IF m <= n THEN m ELSE n

-----------------------------------------------------------------------------
(* Properties of MedRxivHarvester.harvest *)

RemoteTiers == {"glm", "openai"}

\* C8: for every article harvest processed without a cache hit, needs_manual_review
\* is true exactly when no remote tier made the result (the heuristic tier did, or
\* the abstract was missing or too short and extract was not called), and false
\* exactly when the GLM or the OpenAI tier succeeded.
C8_ReviewFlagIffNoRemoteTier ==
    \A k \in 1..Len(processed_articles) :
        produced_by[k] # "cache" =>
        /\ processed_articles[k].needs_manual_review <=> produced_by[k] \in {"heuristic", "short"}
        /\ ~processed_articles[k].needs_manual_review <=> produced_by[k] \in RemoteTiers
        /\ produced_by[k] = "short" <=> ShortAbstract(harvest_articles[k].abstract)

C8_Witness ==
    /\ pc = "harvested"
    /\ produced_by = <<"heuristic", "openai">>
    /\ processed_articles[1].needs_manual_review
    /\ ~processed_articles[2].needs_manual_review
    /\ needs_review = <<harvest_articles[1].id>>

-----------------------------------------------------------------------------
(* Specification of one call of a retry loop, for every sequence of         *)
(* responses                                                                *)

NotRetryVars == <<pc, fuzz_available, restVars, dedupVars, fetchVars, extractVars, harvestVars>>

InitRetry ==
    /\ pc = "retry"
    /\ fuzz_available = TRUE
    /\ RestIdle
    /\ articles = <<>>
    /\ deduplicated = <<>>
    /\ found = <<>>
    /\ FetchIdle
    /\ ExtractIdle
    /\ HarvestIdle
    /\ \E which \in {"fetch", "glm"}, limit \in {1, 2, DefaultMaxRetries},
          first_delay \in {DefaultInitialDelay, 16} :
            RetryStarted(which, limit, first_delay)

RetryRequest ==
    /\ \E status \in Statuses \cup {TransportFailure} : Attempt(status)
    /\ UNCHANGED NotRetryVars

RetryExhausted ==
    /\ LoopExhausted
    /\ UNCHANGED NotRetryVars

NextRetry == RetryRequest \/ RetryExhausted

SpecRetry == InitRetry /\ [][NextRetry]_vars

-----------------------------------------------------------------------------
(* Properties of the retry loops *)

NonRetryable(status) == status >= 400 /\ status <= 499 /\ status # 429
TransientFailure(status) == status \in {429, 500, 502, 503, 504} \/ status = TransportFailure
AllTransient == \A i \in 1..Len(responses) : TransientFailure(responses[i])
RECURSIVE TwoToThe(_)
TwoToThe(n) == IF n = 0 THEN 1 ELSE 2 * TwoToThe(n - 1)
Least(m, n) == IF m <= n THEN m ELSE n

\* C12: in both retry loops a response with a non-retryable status (a 4xx other than
\* 429) ends the call at once with a failure: it is the last request of the call (the
\* only one when it answers the first request), no sleep follows it and the call has
\* raised.
C12_ClientErrorFailsAtOnce ==
    \A i \in 1..Len(responses) :
        NonRetryable(responses[i]) =>
        /\ call_state = "raised"
        /\ Len(responses) = i
        /\ \A k \in 1..Len(slept) : slept[k].before_retry # i

C14_SleepDoublesUpToCap ==
    /\ \A k \in 1..Len(slept) :
          /\ slept[k].seconds = Least(initial_delay * TwoToThe(slept[k].before_retry - 1), MaxDelay)
          /\ slept[k].seconds <= MaxDelay
          /\ k > 1 => slept[k - 1].seconds <= slept[k].seconds
          /\ slept[k].before_retry >= 1
          /\ slept[k].before_retry <= Len(responses)
          /\ call_state \in {"returned", "raised"} => slept[k].before_retry < Len(responses)
    /\ \A i \in 1..Len(responses) :
          (TransientFailure(responses[i]) /\ i < max_retries) =>
              \E k \in 1..Len(slept) : slept[k].before_retry = i

-----------------------------------------------------------------------------
(* Properties of the cache and of the rate limit in harvest *)

Hit == pc = "loop" /\ index <= Len(harvest_articles) /\ harvest_articles[index].id \in DOMAIN cache
Events(event) == {i \in 1..Len(trace) : trace[i].event = event}
EventsAt(event, k) == {i \in Events(event) : trace[i].at = k /\ trace[i].run = run}
Processing(k) == {i \in 1..Len(trace) : trace[i].at = k /\ trace[i].run = run
                                        /\ trace[i].event \in {"hit", "short", "extract"}}

\* C16: when harvest comes to an article whose identifier is a key of the cache, that
\* step calls no extractor tier, takes no delay, appends exactly the cached value to
\* the output (not the article just fetched, not a merge of the two) and leaves the
\* cache as it is.
C16_CacheHitReusesRecord ==
    [][Hit =>
        /\ processed_articles' = Append(processed_articles, cache[harvest_articles[index].id])
        /\ cache' = cache
        /\ sleeps' = sleeps
        /\ tier_calls' = tier_calls
        /\ pc' = "loop"
        /\ index' = index + 1
        /\ Len(trace') = Len(trace) + 1
        /\ trace'[Len(trace')].event = "hit"]_vars

C16_Witness ==
    /\ pc = "harvested"
    /\ produced_by = <<"heuristic", "cache">>
    /\ harvest_articles[1].id = "a2"
    /\ harvest_articles[2].id = "a2"
    /\ harvest_articles[2].abstract # harvest_articles[1].abstract
    /\ processed_articles[2] = processed_articles[1]
    /\ sleeps = 1

\* C18: during harvest no key leaves the cache and no value of a key changes; the
\* cache changes only by gaining one key, the non-empty identifier of the article
\* being processed, which was not a key before.
C18_CacheAppendOnly ==
    [][/\ \A id \in DOMAIN cache : id \in DOMAIN cache' /\ cache'[id] = cache[id]
       /\ cache' # cache =>
            /\ pc \in {"loop", "done"}
            /\ index <= Len(harvest_articles)
            /\ index' = index + 1
            /\ harvest_articles[index].id # ""
            /\ harvest_articles[index].id \notin DOMAIN cache
            /\ DOMAIN cache' = DOMAIN cache \cup {harvest_articles[index].id}
            /\ cache'[harvest_articles[index].id] = processed_articles'[index]]_vars

C18_Witness ==
    /\ pc = "harvested"
    /\ Len(harvest_articles) = 2
    /\ harvest_articles[1].id = ""
    /\ harvest_articles[2].id = "a2"
    /\ produced_by[1] # "cache"
    /\ DOMAIN cache = {"a1", "a2"}
    /\ cache["a2"] = processed_articles[2]

\* C19: for every article harvest processed without a cache hit: when its abstract is
\* missing, empty or has fewer than 50 characters after strip(), extract was not
\* called for it, its five extracted fields are empty strings and needs_manual_review
\* is true; when the abstract has 50 or more stripped characters, extract was called
\* for it.
C19_ShortAbstractNeverExtracted ==
    \A k \in 1..Len(processed_articles) :
        produced_by[k] # "cache" =>
        LET text == harvest_articles[k].abstract
            short == text.len = 0 \/ text.stripped < MinAbstractLength
        IN /\ short =>
              /\ EventsAt("extract", k) = {}
              /\ \A field \in Fields : processed_articles[k][field] = Str(0)
              /\ processed_articles[k].needs_manual_review
           /\ ~short => Cardinality(EventsAt("extract", k)) = 1

C19_Witness ==
    /\ pc = "harvested"
    /\ Len(harvest_articles) = 2
    /\ harvest_articles[1].abstract = AbstractBlank49
    /\ harvest_articles[2].abstract = AbstractExact50
    /\ produced_by[1] = "short"
    /\ produced_by[2] = "glm"

\* C20: in harvest every call of extract for an article that is not the last one is
\* followed by one sleep of llm_delay before the next article is taken up, so between
\* two calls of extract there is always a sleep; no sleep is taken for the last
\* article of the run.
C20_DelayBetweenExtractions ==
    /\ \A k \in 1..Len(processed_articles) :
          \A i \in EventsAt("extract", k) :
              IF k < Len(harvest_articles)
              THEN \E j \in EventsAt("sleep", k) :
                      /\ i < j
                      /\ EventsAt("sleep", k) = {j}
                      /\ \A n \in Processing(k + 1) : j < n
              ELSE EventsAt("sleep", k) = {}
    /\ \A i, j \in Events("extract") :
          (i < j /\ trace[i].run = trace[j].run) =>
              \E n \in Events("sleep") : i < n /\ n < j
    /\ EventsAt("sleep", Len(harvest_articles)) = {}

C20_Witness ==
    /\ pc = "harvested"
    /\ Len(harvest_articles) = 2
    /\ Cardinality(Events("extract")) = 2
    /\ Cardinality(Events("sleep")) = 1
    /\ EventsAt("sleep", 1) # {}

-----------------------------------------------------------------------------
(* Specification of successive harvest runs that share the cache file *)


RunUniverse ==
    {HarvestArticle("", AbstractExact50), HarvestArticle("a1", AbstractExact50),
     HarvestArticle("a1", AbstractBlank49)}

\* a new process: MedRxivHarvester() loads the cache file, harvest() gets a new list
HarvestRerun ==
    /\ pc = "harvested"
    /\ run < MaxRuns
    /\ run' = run + 1
    /\ cache' = load_cache(cache_file)
    /\ harvest_articles' \in ListsUpTo(RunUniverse, MaxHarvest)
    /\ index' = 1
    /\ processed_articles' = <<>>
    /\ needs_review' = <<>>
    /\ produced_by' = <<>>
    /\ sleeps' = 0
    /\ trace' = Append(trace, [run |-> run + 1, at |-> 0, id |-> "",
                               event |-> IF cache_file.state = "corrupt"
                                         THEN "load_failed" ELSE "loaded"])
    /\ pc' = "loop"
    /\ UNCHANGED <<cache_file, extractVars, fuzz_available, restVars, retryVars, dedupVars, fetchVars>>

InitRuns ==
    /\ pc = "loop"
    /\ fuzz_available = TRUE
    /\ RestIdle
    /\ articles = <<>>
    /\ deduplicated = <<>>
    /\ found = <<>>
    /\ FetchIdle
    /\ RetryIdle
    /\ glm_client = FALSE
    /\ openai_client = FALSE
    /\ abstract = AbstractEmpty
    /\ tier_calls = <<>>
    /\ raw = EmptyResult
    /\ extraction_result = EmptyResult
    /\ needs_manual_review = FALSE
    /\ harvest_articles \in ListsUpTo(RunUniverse, MaxHarvest)
    /\ index = 1
    /\ cache = EmptyCache
    /\ processed_articles = <<>>
    /\ needs_review = <<>>
    /\ produced_by = <<>>
    /\ sleeps = 0
    /\ trace = <<>>
    /\ cache_file = AbsentFile
    /\ run = 1

NextRuns ==
    \/ HarvestCached
    \/ HarvestShort
    \/ HarvestExtract
    \/ TryGLM
    \/ TryOpenAI
    \/ Heuristic
    \/ HarvestCombine
    \/ HarvestFinish
    \/ HarvestRerun

SpecRuns == InitRuns /\ [][NextRuns]_vars

-----------------------------------------------------------------------------
(* Properties of the cache over several runs *)

SaveOrLoadFailed(n) == trace[n].event \in {"not_opened", "broken_off", "load_failed"}

-----------------------------------------------------------------------------
(* Specification of a harvest whose GLM tier goes through GLMClient's retry  *)
(* loop, request by request                                                  *)

OutageStatuses == {200, 500}

OutageUniverse ==
    {HarvestArticle("a1", AbstractExact50), HarvestArticle("a2", AbstractExact50),
     HarvestArticle("a1", AbstractBlank49)}

\* what a GLM call comes to once its request loop has ended: a raised loop is a failed
\* request, a returned response is parsed
AnswersAfter(state) ==
    IF state = "raised" THEN {Answer("request_failed", ParsedEmpty)}
    ELSE {Answer("no_choices", ParsedEmpty), Answer("no_json", ParsedEmpty),
          Answer("object", ParsedShort)}

\* (variant) an extract that lets the exception of the GLM tier out to its caller
AfterGLMExceptionRaised(next) == "raised"
\* except Exception as e: logger.warning("GLM extraction failed ..."): on to the next tier
AfterGLMException(next) == next

\* if self.glm_client: try: self.glm_client.extract_structured_info(abstract) is
\* called and _make_request starts
GLMCall ==
    /\ pc = "glm"
    /\ IF glm_client
       THEN /\ pc' = "glm_request"
            /\ loop' = "glm"
            /\ max_retries' = DefaultMaxRetries
            /\ initial_delay' = DefaultInitialDelay
            /\ attempt' = 0
            /\ delay' = DefaultInitialDelay
            /\ responses' = <<>>
            /\ slept' = <<>>
            /\ call_state' = "running"
            /\ response' = NoResponse
            /\ exceptions' = 0
       ELSE /\ pc' = "openai"
            /\ UNCHANGED retryVars
    /\ UNCHANGED <<extractVars, harvestVars, fuzz_available, restVars, dedupVars, fetchVars>>

\* one iteration of the loop of GLMClient._make_request, or its end
GLMRequest ==
    /\ pc = "glm_request"
    /\ \/ \E status \in OutageStatuses : Attempt(status)
       \/ LoopExhausted
    /\ UNCHANGED NotRetryVars

\* _make_request has returned or raised: the rest of extract_structured_info and of
\* the try block of extract
GLMAnswer ==
    /\ pc = "glm_request"
    /\ call_state \in {"returned", "raised"}
    /\ \E answer \in AnswersAfter(call_state) :
          LET called == extract_structured_info(answer)
              returned == GLMReturn(called.result)
          IN /\ tier_calls' = Append(tier_calls, TierCall("glm", answer.outcome))
             /\ pc' = IF called.raised THEN AfterGLMException("openai") ELSE "done"
             /\ trace' = IF call_state = "raised"
                         THEN Append(trace, Event("glm_raised", index, Current.id))
                         ELSE trace
             /\ IF called.raised
                THEN UNCHANGED <<raw, extraction_result, needs_manual_review>>
                ELSE /\ raw' = answer.parsed
                     /\ extraction_result' = returned.extracted_data
                     /\ needs_manual_review' = returned.needs_manual_review
    /\ UNCHANGED <<glm_client, openai_client, abstract, harvest_articles, index, cache,
                   processed_articles, needs_review, produced_by, sleeps, cache_file, run,
                   fuzz_available, restVars, retryVars, dedupVars, fetchVars>>

InitOutage ==
    /\ pc = "loop"
    /\ fuzz_available = TRUE
    /\ RestIdle
    /\ articles = <<>>
    /\ deduplicated = <<>>
    /\ found = <<>>
    /\ FetchIdle
    /\ RetryIdle
    /\ glm_client \in BOOLEAN
    /\ openai_client \in BOOLEAN
    /\ abstract = AbstractEmpty
    /\ tier_calls = <<>>
    /\ raw = EmptyResult
    /\ extraction_result = EmptyResult
    /\ needs_manual_review = FALSE
    /\ harvest_articles \in ListsUpTo(OutageUniverse, MaxHarvest)
    /\ index = 1
    /\ cache = EmptyCache
    /\ processed_articles = <<>>
    /\ needs_review = <<>>
    /\ produced_by = <<>>
    /\ sleeps = 0
    /\ trace = <<>>
    /\ cache_file = AbsentFile
    /\ run = 1

NextOutage ==
    \/ HarvestCached
    \/ HarvestShort
    \/ HarvestExtract
    \/ GLMCall
    \/ GLMRequest
    \/ GLMAnswer
    \/ TryOpenAI
    \/ Heuristic
    \/ HarvestCombine
    \/ HarvestFinish

SpecOutage == InitOutage /\ [][NextOutage]_vars

\* harvest is sequential code: every step that can be taken is taken
SpecOutageLive == SpecOutage /\ WF_vars(NextOutage)

-----------------------------------------------------------------------------
(* Properties of a harvest during an outage of the GLM service *)

\* the GLM request loop has just raised after max_retries requests, all answered 500
Outage ==
    /\ pc = "glm_request"
    /\ call_state = "raised"
    /\ Len(responses) = max_retries
    /\ \A i \in 1..Len(responses) : responses[i] = 500

\* C15: when GLM is configured and answers 500 to every request of its retry loop, the
\* failure stays inside extract: the next tier called is OpenAI if it is configured and
\* the heuristic otherwise, extract returns a complete result, the record is processed,
\* and harvest goes on through the remaining records to its end.
C15_OutageFallsBack ==
    /\ [](pc \in {"loop", "glm", "glm_request", "openai", "heuristic", "done", "harvested"})
    /\ []((pc = "done" /\ glm_client /\ call_state = "raised") =>
            /\ Len(responses) = DefaultMaxRetries
            /\ tier_calls[1] = TierCall("glm", "request_failed")
            /\ Len(tier_calls) >= 2
            /\ tier_calls[2].tier = (IF openai_client THEN "openai" ELSE "heuristic")
            /\ tier_calls[Len(tier_calls)].outcome = "object"
            /\ CompleteResult(extraction_result))
    /\ \A k \in 1..MaxHarvest : (Outage /\ index = k) ~> (Len(processed_articles) >= k)
    /\ Outage ~> (pc = "harvested" /\ Len(processed_articles) = Len(harvest_articles))

C15_Witness ==
    /\ pc = "harvested"
    /\ Len(harvest_articles) = 2
    /\ Len(processed_articles) = 2
    /\ \E n \in Events("glm_raised") : trace[n].at = 1
    /\ produced_by[1] = "heuristic"
    /\ produced_by[2] = "glm"

-----------------------------------------------------------------------------
(* Properties of the raw output *)

-----------------------------------------------------------------------------
(* Specification of main: one harvest run, its outputs and its exit status *)

MainUniverse ==
    {HarvestArticle(id, AbstractExact50) : id \in HarvestIds}
    \cup {HarvestArticle("a1", AbstractBlank49)}

\* output_files = self._generate_outputs(...); stats = self._generate_statistics(...);
\* return {...}: the files are written, or an exception leaves harvest
HarvestReport ==
    /\ pc = "harvested"
    /\ \E written \in BOOLEAN :
          IF written
          THEN /\ statistics' = generate_statistics(processed_articles, needs_review)
               /\ trace' = Append(trace, Event("outputs", index, ""))
               /\ pc' = "reported"
          ELSE /\ trace' = Append(trace, Event("outputs_failed", index, ""))
               /\ pc' = "failed"
               /\ UNCHANGED statistics
    /\ UNCHANGED <<exit_status, harvest_articles, index, cache, processed_articles,
                   needs_review, produced_by, sleeps, cache_file, run, extractVars,
                   fuzz_available, retryVars, dedupVars, fetchVars, aloneVars>>

\* main: return 0 after the summary, return 1 in `except Exception`
MainReturn ==
    /\ pc \in {"reported", "failed"}
    /\ exit_status' = (IF pc = "reported" THEN 0 ELSE 1)
    /\ pc' = "exited"
    /\ UNCHANGED <<statistics, extractVars, harvestVars, fuzz_available, retryVars,
                   dedupVars, fetchVars, aloneVars>>

InitMain ==
    /\ pc = "loop"
    /\ fuzz_available = TRUE
    /\ RestIdle
    /\ articles = <<>>
    /\ deduplicated = <<>>
    /\ found = <<>>
    /\ FetchIdle
    /\ RetryIdle
    /\ glm_client = FALSE
    /\ openai_client \in BOOLEAN
    /\ abstract = AbstractEmpty
    /\ tier_calls = <<>>
    /\ raw = EmptyResult
    /\ extraction_result = EmptyResult
    /\ needs_manual_review = FALSE
    /\ harvest_articles \in ListsUpTo(MainUniverse, MaxHarvest)
    /\ index = 1
    /\ cache \in LoadedCaches
    /\ processed_articles = <<>>
    /\ needs_review = <<>>
    /\ produced_by = <<>>
    /\ sleeps = 0
    /\ trace = <<>>
    /\ cache_file = (IF cache = EmptyCache THEN AbsentFile ELSE FileHolding(cache))
    /\ run = 1

NextMain ==
    \/ HarvestCached
    \/ HarvestShort
    \/ HarvestExtract
    \/ TryGLM
    \/ TryOpenAI
    \/ Heuristic
    \/ HarvestCombine
    \/ HarvestFinish
    \/ HarvestReport
    \/ MainReturn

SpecMain == InitMain /\ [][NextMain]_vars

-----------------------------------------------------------------------------
(* Properties of the end of a run *)

SaveFailed == \E n \in 1..Len(trace) : trace[n].event \in {"not_opened", "broken_off"}
Flagged == {k \in 1..Len(processed_articles) : processed_articles[k].needs_manual_review}
RECURSIVE Sum(_)
Sum(counts) ==
    IF DOMAIN counts = {} THEN 0
    ELSE LET s == CHOOSE s \in DOMAIN counts : TRUE
         IN counts[s] + Sum([r \in DOMAIN counts \ {s} |-> counts[r]])

\* C21: when the write of the cache file at the end of the run has failed, harvest
\* generates neither outputs nor statistics and main does not return 0.
C21_SaveFailureAbortsRun ==
    SaveFailed =>
        /\ Events("outputs") = {}
        /\ statistics = NoStatistics
        /\ exit_status # 0

\* C22: in every run the processed list follows the fetched list, article by article
\* and in its order, whether the record needs review or not; needs_review lists, in
\* that order, the ids of exactly the processed records whose flag is set, records
\* taken from the cache included; the reported count is the number of those records,
\* and the counts by source add up to total_articles, the number of fetched articles.
C22_EveryArticleReportedOnce ==
    /\ Len(processed_articles) <= Len(harvest_articles)
    /\ pc \in {"loop", "harvested", "reported", "failed", "exited"} =>
          Len(processed_articles) = index - 1
    /\ pc \in {"harvested", "reported", "failed", "exited"} =>
          Len(processed_articles) = Len(harvest_articles)
    /\ \A k \in 1..Len(processed_articles) :
          processed_articles[k].id = harvest_articles[k].id
    /\ Len(needs_review) = Cardinality(Flagged)
    /\ \A n \in 1..Len(needs_review) :
          \E k \in Flagged :
             /\ needs_review[n] = processed_articles[k].id
             /\ Cardinality({j \in Flagged : j <= k}) = n
    /\ pc \in {"reported", "exited"} /\ exit_status # 1 =>
          /\ statistics.total_articles = Len(harvest_articles)
          /\ statistics.count = Cardinality(Flagged)
          /\ statistics.article_ids = needs_review
          /\ Sum(statistics.source_breakdown) = statistics.total_articles

C22_Witness ==
    /\ pc = "exited"
    /\ exit_status = 0
    /\ Len(harvest_articles) = 2
    /\ produced_by[1] = "cache"
    /\ processed_articles[1].needs_manual_review
    /\ produced_by[2] = "openai"
    /\ ~processed_articles[2].needs_manual_review
    /\ harvest_articles[2].source = AbsentKey
    /\ statistics.count = 1

-----------------------------------------------------------------------------
(* Specification of _extract_last_corresponding_author on every list of at   *)
(* most MaxAuthors authors and every list of at most MaxAuthors affiliations *)

Resolve ==
    /\ pc = "resolve"
    /\ last_corresponding' = extract_last_corresponding_author(authors, affiliations)
    /\ pc' = "resolved"
    /\ UNCHANGED <<authors, affiliations, mainVars, parseVars, policyVars, fuzz_available,
                   dedupVars, fetchVars, extractVars, harvestVars, retryVars>>

InitResolver ==
    /\ pc = "resolve"
    /\ fuzz_available = TRUE
    /\ articles = <<>>
    /\ deduplicated = <<>>
    /\ found = <<>>
    /\ FetchIdle
    /\ ExtractIdle
    /\ HarvestIdle
    /\ RetryIdle
    /\ MainIdle
    /\ ParseIdle
    /\ PolicyIdle
    /\ authors \in ListsUpTo(AuthorUniverse, MaxAuthors)
    /\ affiliations \in ListsUpTo(AffiliationUniverse, MaxAuthors)
    /\ last_corresponding = Resolved(<<>>, <<>>)

NextResolver == Resolve

SpecResolver == InitResolver /\ [][NextResolver]_vars

-----------------------------------------------------------------------------
(* Properties of _extract_last_corresponding_author *)

\* flagged by the record, by an asterisk or by the text "(corresponding)"
Flagged_(author) ==
    IF author.kind = "dict"
    THEN author.corresponding \/ author.corresponding_author
    ELSE \E k \in 1..Len(author.text) :
            author.text[k] \in {"*", "(corresponding)", "(Corresponding)"}
FlaggedAt == {k \in 1..Len(authors) : Flagged_(authors[k])}
\* the position of the author the claims select: the last flagged one, else the last
SelectedAt == IF FlaggedAt # {} THEN SetMax(FlaggedAt) ELSE Len(authors)
\* the name of an author without the marker characters around it
CleanName(author) ==
    Strip(StripStars(IF author.kind = "dict"
                     THEN (IF author.name # <<>> THEN author.name
                           ELSE author.lastname \o <<" ">> \o author.firstname)
                     ELSE author.text))
EntryText(aff) ==
    IF aff.kind = "dict" THEN (IF aff.name # <<>> THEN aff.name ELSE aff.institution)
    ELSE aff.text

\* C23: the call returns the name of the last author of the list that is flagged as
\* corresponding; when no author is flagged, the name of the last author; when the
\* list is empty, two empty strings.  [A, B*, *C ] and [A, E, A] both give the last one.
C23_LastCorrespondingAuthor ==
    pc = "resolved" =>
        IF authors = <<>>
        THEN last_corresponding = Resolved(<<>>, <<>>)
        ELSE last_corresponding.author_name = CleanName(authors[SelectedAt])

C23_Witness ==
    /\ pc = "resolved"
    /\ authors = <<StrAuthor(<<"A">>), StrAuthor(<<"B", "*">>), StrAuthor(<<"*", "C", " ">>)>>
    /\ last_corresponding.author_name = <<"C">>

\* C24: the affiliation returned is affiliations[i] when the selected author was flagged
\* at position i and i is within affiliations; the last entry of affiliations when the
\* author is the last-author fallback or i is beyond affiliations; the empty string
\* when affiliations is empty.
C24_AffiliationOfSelectedAuthor ==
    (pc = "resolved" /\ authors # <<>>) =>
        last_corresponding.affiliation =
            (IF affiliations = <<>> THEN <<>>
             ELSE IF FlaggedAt # {} /\ SelectedAt <= Len(affiliations)
                  THEN EntryText(affiliations[SelectedAt])
                  ELSE EntryText(affiliations[Len(affiliations)]))

C24_Witness ==
    /\ pc = "resolved"
    /\ Len(authors) = 3
    /\ Len(affiliations) = 2
    /\ FlaggedAt = {1}
    /\ last_corresponding.affiliation = <<"X">>
    /\ affiliations[2] = StrAffiliation(<<"Y">>)

-----------------------------------------------------------------------------
(* Specification of the parsers, each on every item of its source *)

\* what no parser changes
notParsedVars == <<parser_name, raw_item, mainVars, resolverVars, policyVars, fuzz_available,
                   dedupVars, fetchVars, extractVars, harvestVars, retryVars>>

ParseBiomodelArticle ==
    /\ pc = "parse"
    /\ parser_name = "_parse_biomodel_article"
    /\ record' = parse_biomodel_article(raw_item)
    /\ pc' = "parsed"
    /\ UNCHANGED notParsedVars

ParseRssEntry ==
    /\ pc = "parse"
    /\ parser_name = "_parse_rss_entry"
    /\ record' = parse_rss_entry(raw_item)
    /\ pc' = "parsed"
    /\ UNCHANGED notParsedVars

ParseSearchResult ==
    /\ pc = "parse"
    /\ parser_name = "_parse_search_result"
    /\ record' = parse_search_result(raw_item)
    /\ pc' = "parsed"
    /\ UNCHANGED notParsedVars

ParsePubmedXml ==
    /\ pc = "parse"
    /\ parser_name = "_parse_pubmed_xml"
    /\ record' = parse_pubmed_xml(raw_item)
    /\ pc' = "parsed"
    /\ UNCHANGED notParsedVars

ParseArxivEntry ==
    /\ pc = "parse"
    /\ parser_name = "_parse_arxiv_entry"
    /\ record' = parse_arxiv_entry(raw_item)
    /\ pc' = "parsed"
    /\ UNCHANGED notParsedVars

InitParse ==
    /\ pc = "parse"
    /\ fuzz_available = TRUE
    /\ articles = <<>>
    /\ deduplicated = <<>>
    /\ found = <<>>
    /\ FetchIdle
    /\ ExtractIdle
    /\ HarvestIdle
    /\ RetryIdle
    /\ MainIdle
    /\ ResolverIdle
    /\ PolicyIdle
    /\ \/ parser_name = "_parse_biomodel_article" /\ raw_item \in BiomodelItems
       \/ parser_name = "_parse_rss_entry" /\ raw_item \in RssEntries
       \/ parser_name = "_parse_search_result" /\ raw_item \in SearchResults
       \/ parser_name = "_parse_pubmed_xml" /\ raw_item \in PubmedArticles
       \/ parser_name = "_parse_arxiv_entry" /\ raw_item \in ArxivEntries
    /\ record = <<>>

NextParse ==
    \/ ParseBiomodelArticle
    \/ ParseRssEntry
    \/ ParseSearchResult
    \/ ParsePubmedXml
    \/ ParseArxivEntry

SpecParse == InitParse /\ [][NextParse]_vars

-----------------------------------------------------------------------------
(* Properties of the parsers *)

RecordReturned == pc = "parsed" /\ record # <<>>

\* C25: every record a parser returns has a non-empty id and a non-empty source, also
\* for an item without DOI, without link and without native id.
C25_RecordHasIdAndSource ==
    RecordReturned => record[1].id # <<>> /\ record[1].source # ""

\* C25, the half that holds: every record a parser returns has a non-empty source.
C25_RecordHasSource == RecordReturned => record[1].source # ""

\* C25, the fallback: a record whose item gave a URL but neither DOI nor native id has
\* the URL as its id.
C25_IdFallsBackToUrl ==
    (RecordReturned /\ record[1].url # <<>>) => record[1].id # <<>>

-----------------------------------------------------------------------------
(* Specification of the two retry loops on every sequence of DefaultMaxRetries *)
(* answers                                                                   *)

\* what neither run changes
notPolicyVars == <<served, mainVars, resolverVars, parseVars, fuzz_available, dedupVars,
                   fetchVars, extractVars, harvestVars, retryVars>>

RunFetchLoop ==
    /\ pc \in {"policy", "glm_done"}
    /\ fetch_run' = make_request_with_retry(served)
    /\ pc' = IF pc = "policy" THEN "fetch_done" ELSE "compared"
    /\ UNCHANGED <<glm_run, notPolicyVars>>

RunGLMLoop ==
    /\ pc \in {"policy", "fetch_done"}
    /\ glm_run' = make_request(served)
    /\ pc' = IF pc = "policy" THEN "glm_done" ELSE "compared"
    /\ UNCHANGED <<fetch_run, notPolicyVars>>

InitPolicy ==
    /\ pc = "policy"
    /\ fuzz_available = TRUE
    /\ articles = <<>>
    /\ deduplicated = <<>>
    /\ found = <<>>
    /\ FetchIdle
    /\ ExtractIdle
    /\ HarvestIdle
    /\ RetryIdle
    /\ MainIdle
    /\ ResolverIdle
    /\ ParseIdle
    /\ served \in [1..DefaultMaxRetries -> AnswerKinds]
    /\ fetch_run = NotRun
    /\ glm_run = NotRun

NextPolicy ==
    \/ RunFetchLoop
    \/ RunGLMLoop

SpecPolicy == InitPolicy /\ [][NextPolicy]_vars

-----------------------------------------------------------------------------
(* Properties of the two retry loops *)

\* the answers the run got to see
Seen(done) == SubSeq(served, 1, done.requests)

\* C26: on the same sequence of answers the fetch loop and the GLM loop send the same
\* number of requests, sleep the same durations and end the same way.
C26_SameRetryPolicy ==
    pc = "compared" => fetch_run = glm_run

\* C26, where it holds: the two loops agree whenever the fetch loop was not answered
\* with a status below 400 other than 200.
C26_SameRetryPolicyApartFromC14 ==
    (pc = "compared" /\ 204 \notin Range(Seen(fetch_run))) => fetch_run = glm_run

====
